---- MODULE Spec2Model ----
(***************************************************************************)
(* plexos2duckdb: the solution assembly pipeline of src/src/lib.rs.        *)
(*                                                                         *)
(* The catalog (entity tables, KeyIndex, BIN files) is the input; the      *)
(* model covers the four load derivations, the canonical table naming, the *)
(* planning and distribution of data tables, the row production of         *)
(* append_single_data_table, and the sequential and the parallel writer.   *)
(*                                                                         *)
(* Strings are sequences of one-character strings, so that replace() and   *)
(* split("__") are computed character by character.                        *)
(* Machine integers keep their signedness and their checked arithmetic,    *)
(* with the widths scaled down (u64 -> 7 bits, i64 -> 7 bits two's         *)
(* complement); the size of an f64 stays 8 bytes.                          *)
(***************************************************************************)
EXTENDS Integers, Sequences, FiniteSets, TLC

\* u64::MAX, scaled: KeyIndex.length and KeyIndex.position are u64.
U64_MAX == 127
\* i64::MAX and i64::MIN, scaled: KeyIndex.period_offset and block_id are i64.
I64_MAX == 63
I64_MIN == -64
\* u128::MAX, scaled: DataTableWritePlan.estimated_values is u128.
U128_MAX == 16383
\* size of one little-endian IEEE-754 double in the BIN file
F64_BYTES == 8
\* DATA_READ_CHUNK_VALUES (4096 in the source), scaled
DATA_READ_CHUNK_VALUES == 2

Min(a, b) == IF a <= b THEN a ELSE b
Max(a, b) == IF a >= b THEN a ELSE b

RECURSIVE SortedSeq(_)
\* the elements of a finite set of integers in ascending order (IndexMap::sort_keys)
SortedSeq(S) ==
  IF S = {} THEN <<>>
  ELSE LET m == CHOOSE x \in S : \A y \in S : x <= y
       IN <<m>> \o SortedSeq(S \ {m})

RECURSIVE SumSeq(_)
SumSeq(s) == IF s = <<>> THEN 0 ELSE Head(s) + SumSeq(Tail(s))

SeqToSet(s) == { s[i] : i \in 1..Len(s) }

(***************************************************************************)
(* Strings                                                                 *)
(***************************************************************************)
\* the ASCII codes of the characters that names are made of (the order of str::cmp)
Upper ==
  << "A", "B", "C", "D", "E", "F", "G", "H", "I", "J", "K", "L", "M",
     "N", "O", "P", "Q", "R", "S", "T", "U", "V", "W", "X", "Y", "Z" >>

Lower ==
  << "a", "b", "c", "d", "e", "f", "g", "h", "i", "j", "k", "l", "m",
     "n", "o", "p", "q", "r", "s", "t", "u", "v", "w", "x", "y", "z" >>

Digits == << "0", "1", "2", "3", "4", "5", "6", "7", "8", "9" >>

IndexIn(c, s) == CHOOSE i \in 1..Len(s) : s[i] = c

CharCode(c) ==
  CASE c = " " -> 32
    [] c = "-" -> 45
    [] c = "_" -> 95
    [] c \in { Digits[i] : i \in 1..Len(Digits) } -> 47 + IndexIn(c, Digits)
    [] c \in { Upper[i] : i \in 1..Len(Upper) } -> 64 + IndexIn(c, Upper)
    [] c \in { Lower[i] : i \in 1..Len(Lower) } -> 96 + IndexIn(c, Lower)

RECURSIVE StrLess(_, _)
\* a < b in the byte-wise lexicographic order of str::cmp
StrLess(a, b) ==
  IF b = <<>> THEN FALSE
  ELSE IF a = <<>> THEN TRUE
  ELSE IF Head(a) # Head(b) THEN CharCode(Head(a)) < CharCode(Head(b))
  ELSE StrLess(Tail(a), Tail(b))

\* str::replace with a one-character pattern and a one-character replacement
ReplaceChar(s, from, to) == [i \in 1..Len(s) |-> IF s[i] = from THEN to ELSE s[i]]

RECURSIVE SplitFrom(_, _, _)
SplitFrom(s, i, cur) ==
  IF i > Len(s) THEN <<cur>>
  ELSE IF i + 1 <= Len(s) /\ s[i] = "_" /\ s[i + 1] = "_"
       THEN <<cur>> \o SplitFrom(s, i + 2, <<>>)
       ELSE SplitFrom(s, i + 1, Append(cur, s[i]))

\* str::split("__"): the segments between the non-overlapping matches, left to right
SplitDunder(s) == SplitFrom(s, 1, <<>>)

\* Option<String>
Some(v) == [some |-> TRUE, val |-> v]
NoneStr == [some |-> FALSE, val |-> <<>>]

\* the "__" that format! puts between the four parts of a table name
Dunder == <<"_", "_">>

(***************************************************************************)
(* Names of phases and period kinds                                        *)
(***************************************************************************)
phase_name(phase_id) ==
  CASE phase_id = 1 -> <<"L", "T">>
    [] phase_id = 2 -> <<"P", "A", "S", "A">>
    [] phase_id = 3 -> <<"M", "T">>
    [] phase_id = 4 -> <<"S", "T">>
    [] OTHER -> <<"U", "n", "k", "n", "o", "w", "n">>

period_name(period_id) ==
  CASE period_id = 0 -> <<"I", "n", "t", "e", "r", "v", "a", "l">>
    [] period_id = 1 -> <<"D", "a", "y">>
    [] period_id = 2 -> <<"W", "e", "e", "k">>
    [] period_id = 3 -> <<"M", "o", "n", "t", "h">>
    [] period_id = 4 -> <<"Y", "e", "a", "r">>
    [] period_id = 6 -> <<"H", "o", "u", "r">>
    [] period_id = 7 -> <<"Q", "u", "a", "r", "t", "e", "r">>
    [] OTHER -> <<"U", "n", "k", "n", "o", "w", "n">>

(***************************************************************************)
(* The catalog: SolutionDataset after the parse_* passes.                  *)
(*   class       : class_id -> [name]                                      *)
(*   collection  : collection_id -> [name, complement_name,                *)
(*                                   parent_class_id, n_members]           *)
(*   membership  : membership_id -> [collection_id, collection_idx]        *)
(*   property    : property_id -> [name, summary_name, is_summary,         *)
(*                                 unit_id, summary_unit_id, band_id]      *)
(*   unit        : unit_id -> value                                        *)
(*   key         : key_id -> [phase_id, is_summary, band_id, membership_id,*)
(*                            property_id, sample_id]                      *)
(*   key_index   : key_id -> [period_type_id, position, length,            *)
(*                            period_offset]                               *)
(*   period_data : period_type_id -> size in bytes of t_data_<id>.BIN      *)
(* Each IndexMap is sorted by its key after the parse (sort_keys), so a    *)
(* function and the ascending order of its domain model it.                *)
(***************************************************************************)
Property_property_name(p) == p.name

\* a faulty variant: the summary name whatever the property's own flag
Property_summary_name_Unconditional(p) == p.summary_name

Property_summary_name(p) == IF p.is_summary THEN p.summary_name ELSE p.name

\* "{prefix}_{collection.name}", the qualified name raw.memberships shows
collection_name(cat, collection_id) ==
  LET collection == cat.collection[collection_id]
      prefix == IF collection.complement_name.some
                THEN collection.complement_name.val
                ELSE cat.class[collection.parent_class_id].name
  IN prefix \o <<"_">> \o collection.name

\* .replace(" ", "_").replace("-", "_")
NormaliseName(s) == ReplaceChar(ReplaceChar(s, " ", "_"), "-", "_")

\* the lookups of one pass of the grouping loop: key, membership, collection,
\* property and unit must all resolve
KeyResolves(cat, key_id) ==
  /\ key_id \in DOMAIN cat.key
  /\ LET key == cat.key[key_id] IN
     /\ key.membership_id \in DOMAIN cat.membership
     /\ cat.membership[key.membership_id].collection_id \in DOMAIN cat.collection
     /\ key.property_id \in DOMAIN cat.property
     /\ LET property == cat.property[key.property_id]
            unit_id == IF property.is_summary THEN property.summary_unit_id
                       ELSE property.unit_id
        IN unit_id \in DOMAIN cat.unit

\* the property part of the table name of a key
PropertyDisplayName(cat, key_id) ==
  LET key == cat.key[key_id]
      property == cat.property[key.property_id]
  IN IF key.is_summary THEN Property_summary_name(property)
     ELSE Property_property_name(property)

\* the collection part of the table name of a key
CollectionPart(cat, key_id) ==
  cat.collection[cat.membership[cat.key[key_id].membership_id].collection_id].name

\* the canonical table name of the KeyIndex of key_id
TableName(cat, key_id) ==
  LET key == cat.key[key_id]
      ki == cat.key_index[key_id]
  IN NormaliseName(phase_name(key.phase_id) \o Dunder \o period_name(ki.period_type_id)
                   \o Dunder \o CollectionPart(cat, key_id)
                   \o Dunder \o PropertyDisplayName(cat, key_id))

MapPush(m, k, v) ==
  IF k \in DOMAIN m THEN [m EXCEPT ![k] = Append(@, v)] ELSE m @@ (k :> <<v>>)

RECURSIVE GroupKeys(_, _, _)
\* the loop of update_table_key_indexes_mapping over key_index.values()
GroupKeys(cat, key_ids, acc) ==
  IF key_ids = <<>> THEN [ok |-> TRUE, mapping |-> acc]
  ELSE LET key_id == Head(key_ids) IN
       IF ~KeyResolves(cat, key_id) THEN [ok |-> FALSE, mapping |-> <<>>]
       ELSE GroupKeys(cat, Tail(key_ids), MapPush(acc, TableName(cat, key_id), key_id))

update_table_key_indexes_mapping(cat) ==
  GroupKeys(cat, SortedSeq(DOMAIN cat.key_index), <<>>)

RECURSIVE BandFold(_, _, _)
BandFold(property, key, key_ids) ==
  IF key_ids = <<>> THEN property
  ELSE LET k == key[Head(key_ids)] IN
       BandFold(IF k.property_id \in DOMAIN property
                THEN [property EXCEPT ![k.property_id].band_id = Max(@, k.band_id)]
                ELSE property,
                key, Tail(key_ids))

\* a faulty variant: the band of the last key wins
update_property_band_id_Last(cat) ==
  [cat EXCEPT !.property =
     [p \in DOMAIN cat.property |->
        LET ks == { k \in DOMAIN cat.key : cat.key[k].property_id = p } IN
        IF ks = {} THEN cat.property[p]
        ELSE [cat.property[p] EXCEPT
                !.band_id = cat.key[CHOOSE k \in ks : \A j \in ks : j <= k].band_id]]]

\* for every key, property[key.property_id].band_id = max(current, key.band_id)
update_property_band_id(cat) ==
  [cat EXCEPT !.property = BandFold(cat.property, cat.key, SortedSeq(DOMAIN cat.key))]

RECURSIVE MemberFold(_, _, _, _)
\* the second loop of update_collection_membership_count: membership_ids are
\* the memberships left, collection_indices the next index of each collection
MemberFold(cat, membership_counts, membership_ids, collection_indices) ==
  IF membership_ids = <<>> THEN cat
  ELSE LET m == Head(membership_ids)
           collection_id == cat.membership[m].collection_id
           idx == IF collection_id \in DOMAIN collection_indices
                  THEN collection_indices[collection_id] ELSE 0
           with_idx == [cat EXCEPT !.membership[m].collection_idx = idx]
           with_n == IF collection_id \in DOMAIN cat.collection
                     THEN [with_idx EXCEPT !.collection[collection_id].n_members =
                             membership_counts[collection_id]]
                     ELSE with_idx
       IN MemberFold(with_n, membership_counts, Tail(membership_ids),
                     [c \in DOMAIN collection_indices \cup {collection_id} |->
                        IF c = collection_id THEN idx + 1 ELSE collection_indices[c]])

\* the number of memberships of each collection a membership names
MembershipCounts(cat) ==
  [c \in { cat.membership[m].collection_id : m \in DOMAIN cat.membership } |->
     Cardinality({ m \in DOMAIN cat.membership : cat.membership[m].collection_id = c })]

\* a faulty variant: one running index for all collections
update_collection_membership_count_Global(cat) ==
  LET ids == SortedSeq(DOMAIN cat.membership) IN
  [MemberFold(cat, MembershipCounts(cat), ids, <<>>) EXCEPT
     !.membership = [m \in DOMAIN cat.membership |->
                       [cat.membership[m] EXCEPT
                          !.collection_idx = Cardinality({ x \in DOMAIN cat.membership : x < m })]]]

\* update_collection_membership_count; membership.values() is in the order of
\* the membership_ids (parse_membership ends with sort_keys)
update_collection_membership_count(cat) ==
  MemberFold(cat, MembershipCounts(cat), SortedSeq(DOMAIN cat.membership), <<>>)


(***************************************************************************)
(* Row production: append_single_data_table                                *)
(***************************************************************************)
\* Option<integer>: the result of a checked operation
SomeInt(v) == [some |-> TRUE, val |-> v]
NoneInt == [some |-> FALSE, val |-> 0]

checked_mul_u64(a, b) == IF a * b <= U64_MAX THEN SomeInt(a * b) ELSE NoneInt
checked_add_u64(a, b) == IF a + b <= U64_MAX THEN SomeInt(a + b) ELSE NoneInt
checked_add_i64(a, b) ==
  IF a + b <= I64_MAX /\ a + b >= I64_MIN THEN SomeInt(a + b) ELSE NoneInt

\* the errors of the writer: what failed, for which key, with which number
NoErr == [kind |-> "none", key_id |-> 0, arg |-> 0]
Err(kind, key_id, arg) == [kind |-> kind, key_id |-> key_id, arg |-> arg]

\* the content of t_data_<period_type_id>.BIN: the byte at offset b
FileByte(period_type_id, b) == (3 * b + 7 * period_type_id + 1) % 256

\* a faulty variant: a short read is not noticed, the missing bytes stay 0
read_exact_at_Short(period_type_id, file_len, offset, n) ==
  [ok |-> TRUE,
   buf |-> [j \in 1..n |-> IF offset + j - 1 < file_len
                           THEN FileByte(period_type_id, offset + j - 1) ELSE 0]]

\* FileExt::read_exact_at: n bytes from byte offset, or an error when the file
\* ends before (or the offset is not one the file has)
read_exact_at(period_type_id, file_len, offset, n) ==
  IF offset + n <= file_len
  THEN [ok |-> TRUE, buf |-> [j \in 1..n |-> FileByte(period_type_id, offset + j - 1)]]
  ELSE [ok |-> FALSE, buf |-> <<>>]

\* f64::from_le_bytes: the bit pattern of the double, most significant byte first
f64_from_le_bytes(b) == [j \in 1..F64_BYTES |-> b[F64_BYTES + 1 - j]]

\* a faulty variant: the index within the chunk instead of the index within the key
BlockIdx_InChunk(i, chunk_i) == chunk_i

\* let block_idx = i + chunk_i
BlockIdx(i, chunk_i) == i + chunk_i

\* a faulty variant: two's complement wrap instead of the checked additions
BlockId_Wrapping(block_idx, period_offset) ==
  SomeInt(((block_idx + period_offset + 1 - I64_MIN) % (I64_MAX - I64_MIN + 1)) + I64_MIN)

\* i64::try_from(block_idx)?.checked_add(period_offset).and_then(|v| v.checked_add(1))
BlockId(block_idx, period_offset) ==
  IF block_idx > I64_MAX THEN NoneInt
  ELSE LET v == checked_add_i64(block_idx, period_offset) IN
       IF ~v.some THEN NoneInt ELSE checked_add_i64(v.val, 1)

\* a faulty variant: always a full chunk, whatever is left of the key
ChunkValues_Full(length, i) == DATA_READ_CHUNK_VALUES

\* (ki.length - i).min(DATA_READ_CHUNK_VALUES)
ChunkValues(length, i) == Min(length - i, DATA_READ_CHUNK_VALUES)

\* a faulty variant: every chunk is read from the key's first byte
ChunkOffset_NoDelta(position, i) == SomeInt(position)

\* position.checked_add(i.checked_mul(8)?)
ChunkOffset(position, i) ==
  LET offset_delta == checked_mul_u64(i, F64_BYTES) IN
  IF ~offset_delta.some THEN NoneInt ELSE checked_add_u64(position, offset_delta.val)

\* a faulty variant: the check is for a 4-byte boundary
Misaligned_Word(position) == position % 4 # 0

\* a faulty variant: the alignment is not checked
Misaligned_Never(position) == FALSE

\* ki.position % 8 != 0
Misaligned(position) == position % F64_BYTES # 0

RECURSIVE EmitRows(_, _, _)
\* the inner loop over one chunk; c holds the chunk, out the rows appended so far
EmitRows(c, chunk_i, out) ==
  IF ~(chunk_i < c.chunk_values) THEN [rows |-> out, err |-> NoErr]
  ELSE LET byte_idx == chunk_i * F64_BYTES
           value == f64_from_le_bytes([j \in 1..F64_BYTES |-> c.chunk_buf[byte_idx + j]])
           block_idx == BlockIdx(c.i, chunk_i)
           block_id_i64 == BlockId(block_idx, c.period_offset)
       IN IF ~block_id_i64.some
          THEN [rows |-> out, err |-> Err("Overflow", c.key_id, block_idx)]
          ELSE EmitRows(c, chunk_i + 1,
                        Append(out, [key_id |-> c.key_id,
                                     sample_id |-> c.key.sample_id,
                                     band_id |-> c.key.band_id,
                                     membership_id |-> c.key.membership_id,
                                     block_id |-> block_id_i64.val,
                                     value |-> value]))

\* The writer of one table is at
\*   "key"    the head of the loop over plan.key_ids, about to look up key k
\*   "chunk"  the head of the loop `while i < ki.length` of key k
\*   "flush"  appender.flush()
\*   "done" / "failed"
\* rows are the rows handed to the appender.
AppendStart == [pc |-> "key", k |-> 1, i |-> 0, rows |-> <<>>, err |-> NoErr]

AppendFail(w, err) == [w EXCEPT !.pc = "failed", !.err = err]

\* a faulty variant: a key whose period type has no BIN file is skipped
AppendKeyStep_Elide(cat, plan, w) ==
  IF w.k > Len(plan.key_ids) THEN [w EXCEPT !.pc = "flush"]
  ELSE LET key_id == plan.key_ids[w.k]
           ki == cat.key_index[key_id]
       IN IF ki.period_type_id \notin DOMAIN cat.period_data
          THEN [w EXCEPT !.k = w.k + 1]
          ELSE IF ki.position % 8 # 0
          THEN AppendFail(w, Err("Misaligned", key_id, ki.position))
          ELSE [w EXCEPT !.pc = "chunk", !.i = 0]

\* one pass of the head of `for key_id in plan.key_ids`: the lookups and the
\* alignment check
AppendKeyStep(cat, plan, w) ==
  IF w.k > Len(plan.key_ids) THEN [w EXCEPT !.pc = "flush"]
  ELSE LET key_id == plan.key_ids[w.k] IN
       IF key_id \notin DOMAIN cat.key_index
       THEN AppendFail(w, Err("KeyIndexNotFound", key_id, key_id))
       ELSE IF key_id \notin DOMAIN cat.key
       THEN AppendFail(w, Err("KeyNotFound", key_id, key_id))
       ELSE LET ki == cat.key_index[key_id] IN
            IF ki.period_type_id \notin DOMAIN cat.period_data
            THEN AppendFail(w, Err("PeriodTypeNotFound", key_id, ki.period_type_id))
            ELSE IF Misaligned(ki.position)
            THEN AppendFail(w, Err("Misaligned", key_id, ki.position))
            ELSE [w EXCEPT !.pc = "chunk", !.i = 0]

\* one pass of `while i < ki.length`: one chunk read and its rows
AppendChunkStep(cat, plan, w) ==
  LET key_id == plan.key_ids[w.k]
      ki == cat.key_index[key_id]
      i == w.i
  IN
  IF ~(i < ki.length) THEN [w EXCEPT !.pc = "key", !.k = w.k + 1, !.i = 0]
  ELSE
    LET chunk_values == ChunkValues(ki.length, i)
        chunk_bytes_u64 == checked_mul_u64(chunk_values, F64_BYTES)
        chunk_offset == ChunkOffset(ki.position, i)
    IN
    IF ~chunk_bytes_u64.some THEN AppendFail(w, Err("Overflow", key_id, i))
    ELSE IF ~chunk_offset.some THEN AppendFail(w, Err("Overflow", key_id, i))
    ELSE
      LET rd == read_exact_at(ki.period_type_id, cat.period_data[ki.period_type_id],
                              chunk_offset.val, chunk_bytes_u64.val)
      IN
      IF ~rd.ok THEN AppendFail(w, Err("IoFailure", key_id, chunk_offset.val))
      ELSE
        LET e == EmitRows([key_id |-> key_id, key |-> cat.key[key_id],
                           period_offset |-> ki.period_offset, i |-> i,
                           chunk_values |-> chunk_values, chunk_buf |-> rd.buf],
                          0, w.rows)
        IN IF e.err # NoErr
           THEN [w EXCEPT !.pc = "failed", !.err = e.err, !.rows = e.rows]
           ELSE [w EXCEPT !.rows = e.rows, !.i = i + chunk_values]

AppendStep(cat, plan, w) ==
  CASE w.pc = "key" -> AppendKeyStep(cat, plan, w)
    [] w.pc = "chunk" -> AppendChunkStep(cat, plan, w)
    [] w.pc = "flush" -> [w EXCEPT !.pc = "done"]
    [] OTHER -> w

RECURSIVE RunAppend(_, _, _)
RunAppend(cat, plan, w) ==
  IF w.pc \in {"done", "failed"} THEN w ELSE RunAppend(cat, plan, AppendStep(cat, plan, w))

\* append_single_data_table run to its end: the rows appended and the outcome
append_single_data_table(cat, plan) == RunAppend(cat, plan, AppendStart)


\* the period kinds of self.period and the names of the seven extractors, in order
Extractors ==
  << [period_name |-> period_name(0), kind |-> "interval"],
     [period_name |-> period_name(1), kind |-> "day"],
     [period_name |-> period_name(2), kind |-> "week"],
     [period_name |-> period_name(3), kind |-> "month"],
     [period_name |-> period_name(4), kind |-> "year"],
     [period_name |-> period_name(6), kind |-> "hour"],
     [period_name |-> period_name(7), kind |-> "quarter"] >>

\* the phases of self.phase
PhaseNames == { phase_name(phase_id) : phase_id \in 1..4 }

\* a faulty variant: every extractor looks the id up among the intervals
period_record_Interval(cat, kind, id) ==
  IF "interval" \in DOMAIN cat.period /\ id \in DOMAIN cat.period["interval"]
  THEN [ok |-> TRUE, datetime |-> cat.period["interval"][id].datetime]
  ELSE [ok |-> FALSE, datetime |-> 0]

\* Self::interval .. Self::quarter: the record of the kind with the id, or an error
period_record(cat, kind, id) ==
  IF kind \in DOMAIN cat.period /\ id \in DOMAIN cat.period[kind]
  THEN [ok |-> TRUE, datetime |-> cat.period[kind][id].datetime]
  ELSE [ok |-> FALSE, datetime |-> 0]

RECURSIVE StampExtractors(_, _, _, _, _, _)
\* the loop over the extractors for one phase entry, from extractor n on
StampExtractors(cat, timestamp_block, name, interval_id, period_id, n) ==
  IF n > Len(Extractors) THEN timestamp_block
  ELSE LET period == period_record(cat, Extractors[n].kind, interval_id)
           key == name \o Dunder \o Extractors[n].period_name
       IN StampExtractors(cat,
                          IF period.ok
                          THEN MapPush(timestamp_block, key, << period.datetime, period_id >>)
                          ELSE timestamp_block,
                          name, interval_id, period_id, n + 1)

RECURSIVE StampEntries(_, _, _, _)
\* the loop over the entries of one phase, an IndexMap sorted by interval_id
StampEntries(cat, timestamp_block, name, interval_ids) ==
  IF interval_ids = <<>> THEN timestamp_block
  ELSE StampEntries(cat,
                    StampExtractors(cat, timestamp_block, name, Head(interval_ids),
                                    cat.phase[name][Head(interval_ids)], 1),
                    name, Tail(interval_ids))

RECURSIVE StampPhases(_, _, _)
\* the loop over self.phase.values(), the HashMap iterated in the order given
StampPhases(cat, timestamp_block, order) ==
  IF order = <<>> THEN timestamp_block
  ELSE StampPhases(cat,
                   StampEntries(cat, timestamp_block, Head(order),
                                SortedSeq(DOMAIN cat.phase[Head(order)])),
                   Tail(order))

\* update_timestamp_block, the phases visited in the order given
update_timestamp_block(cat, order) ==
  [cat EXCEPT !.timestamp_block = StampPhases(cat, cat.timestamp_block, order)]

(***************************************************************************)
(* Planning                                                                *)
(***************************************************************************)
RECURSIVE EstimateValues(_, _, _)
\* estimated_values.checked_add(u128::from(length)) over the keys of a table
EstimateValues(cat, key_ids, acc) ==
  IF key_ids = <<>> THEN SomeInt(acc)
  ELSE LET length == cat.key_index[Head(key_ids)].length IN
       IF acc + length > U128_MAX THEN NoneInt
       ELSE EstimateValues(cat, Tail(key_ids), acc + length)

\* a faulty variant: the table name does not break ties
PlanBefore_NoName(a, b) ==
  \/ a.estimated_values > b.estimated_values
  \/ /\ a.estimated_values = b.estimated_values
     /\ Len(a.key_ids) > Len(b.key_ids)

\* the comparator of plans.sort_by: a sorts before b
PlanBefore(a, b) ==
  \/ a.estimated_values > b.estimated_values
  \/ /\ a.estimated_values = b.estimated_values
     /\ \/ Len(a.key_ids) > Len(b.key_ids)
        \/ /\ Len(a.key_ids) = Len(b.key_ids)
           /\ StrLess(a.table_name, b.table_name)

RECURSIVE InsertPlan(_, _)
\* p put into the sorted sequence, behind the plans that do not sort after it
InsertPlan(sorted, p) ==
  IF sorted = <<>> THEN <<p>>
  ELSE IF PlanBefore(p, Head(sorted)) THEN <<p>> \o sorted
  ELSE <<Head(sorted)>> \o InsertPlan(Tail(sorted), p)

RECURSIVE SortPlans(_, _)
\* the stable sort of plans.sort_by
SortPlans(unsorted, sorted) ==
  IF unsorted = <<>> THEN sorted
  ELSE SortPlans(Tail(unsorted), InsertPlan(sorted, Head(unsorted)))

\* the orders in which a HashMap with the keys S may be iterated
IterationOrders(S) ==
  { o \in [1..Cardinality(S) -> S] : \A x \in S : \E j \in 1..Cardinality(S) : o[j] = x }

RECURSIVE NameOrder(_)
\* one iteration order of the names of table_key_index_mapping (a HashMap)
NameOrder(names) ==
  IF names = {} THEN <<>>
  ELSE LET n == CHOOSE x \in names : \A y \in names : x = y \/ StrLess(x, y)
       IN NameOrder(names \ {n}) \o <<n>>

\* build_data_table_plans, the map iterated in the order of the names given
build_data_table_plans(cat, table_key_index_mapping, order) ==
  LET est == [n \in DOMAIN table_key_index_mapping |->
                EstimateValues(cat, table_key_index_mapping[n], 0)]
      unsorted == [j \in 1..Len(order) |->
                     [table_name |-> order[j],
                      key_ids |-> table_key_index_mapping[order[j]],
                      estimated_values |-> est[order[j]].val]]
  IN IF \E n \in DOMAIN table_key_index_mapping : ~est[n].some
     THEN [ok |-> FALSE, plans |-> <<>>]
     ELSE [ok |-> TRUE, plans |-> SortPlans(unsorted, <<>>)]

\* the cap of the automatic choice of the number of writer threads
MAX_AUTO_DATA_WRITE_THREADS == 8

\* resolve_data_write_threads; available is std::thread::available_parallelism()
resolve_data_write_threads(total_tables, configured_threads, available) ==
  IF configured_threads.some
  THEN Min(Max(configured_threads.val, 1), total_tables)
  ELSE Min(Min(available, MAX_AUTO_DATA_WRITE_THREADS), total_tables)


(***************************************************************************)
(* State                                                                   *)
(***************************************************************************)
VARIABLES
  cat,                 \* the catalog (SolutionDataset's entity tables and BIN files)
  load_pc,             \* with_xml_string_impl: "unread", "parsed", "banded", "stamped", "counted",
                       \* "loaded", "failed"
  mapping,             \* table_key_index_mapping
  data_write_threads,  \* the configured number of writer threads (an Option)
  available,           \* std::thread::available_parallelism()
  zip,                 \* with_zip_file_impl: the archive, the scan of its entries, the choice
  duck,                \* to_duckdb_impl: the mode, the steps run, the destination file
  planner,             \* the planning of populate_table_data, one loop turn at a time
  xml,                 \* the t_membership rows of the solution XML, in document order
  cli,                 \* the command line program: its arguments, the files, its position
  pc,                  \* populate_table_data (the coordinator thread); "panicked": it unwinds
  plans,               \* the sorted plans
  table_idx,           \* sequential writer: the index of the current plan
  w,                   \* sequential writer: append_single_data_table of the current plan
  tables,              \* schema data of the target catalog: table name -> rows
  error,               \* the error populate_table_data returns
  events,              \* the progress events reported so far
  worker_plans,        \* parallel writer: the plans of each worker
  workers,             \* parallel writer: the worker threads
  shards,              \* parallel writer: staging database of each worker
  chan,                \* parallel writer: the mpsc channel, oldest event first
  completed_tables,    \* parallel writer: TableCompleted events counted
  coord_idx            \* parallel writer: the handle joined, then the shard merged

vars ==
  << cat, load_pc, mapping, data_write_threads, available, zip, duck, planner, xml, cli,
     pc, plans, table_idx, w,
     tables, error, events, worker_plans, workers, shards, chan, completed_tables,
     coord_idx >>

loader_vars == << cat, load_pc, mapping >>
input_vars == << data_write_threads, available, zip, duck, planner, xml, cli >>
seq_vars == << table_idx, w >>
par_vars == << worker_plans, workers, shards, chan, completed_tables, coord_idx >>

\* the command line program has not been started
CliIdle ==
  [pc |-> "idle", input |-> <<>>, output |-> [some |-> FALSE, val |-> <<>>],
   print_summary |-> FALSE, before |-> <<>>, fs |-> <<>>, input_path |-> <<>>,
   output_path |-> <<>>, error |-> "none", failed_in |-> "none", stdout |-> <<>>]

\* with_zip_file_impl has not been called
ZipIdle ==
  [pc |-> "idle", path |-> <<>>, self_model_name |-> <<>>, entries |-> <<>>, i |-> 0,
   zip_stem |-> <<>>, model_name |-> <<>>, preferred_xml_index |-> NoneInt,
   model_name_xml_index |-> NoneInt, first_xml_index |-> NoneInt,
   xml_index_to_use |-> NoneInt, warnings |-> <<>>, error |-> "none"]

\* DuckdbBuilder::new: InMemoryThenCopy is the default mode, run has not been called
DuckIdle ==
  [pc |-> "idle", mode |-> "InMemoryThenCopy", step_index |-> 0, con |-> "none",
   ran |-> <<>>, results |-> <<>>, destination |-> <<>>, error |-> "none"]

\* build_data_table_plans has not been called
PlannerIdle ==
  [pc |-> "idle", worker_count |-> 0, next |-> 1, worker_loads |-> <<>>, assigned |-> <<>>]

(***************************************************************************)
(* Inputs                                                                  *)
(***************************************************************************)
\* the largest KeyIndex.length below the ones that only overflow
MaxLen == 5
\* the BIN file of period type 0 holds this many doubles
FileValues == 7
\* the number of 8-byte slots a KeyIndex.position is drawn from
MaxPosSlots == 3

Gen == <<"G", "e", "n">>
Sys == <<"S", "y", "s">>
Reg == <<"R", "e", "g">>

\* a parsed catalog with two keys of one property of one collection
BaseCat ==
  [ class |-> (1 :> [name |-> Sys]) @@ (2 :> [name |-> Reg]),
    collection |-> (1 :> [name |-> Gen, complement_name |-> NoneStr,
                          parent_class_id |-> 1, n_members |-> 0]),
    membership |-> (10 :> [collection_id |-> 1, collection_idx |-> 0]),
    property |-> (3 :> [name |-> <<"P">>, summary_name |-> <<"Q">>, is_summary |-> TRUE,
                        unit_id |-> 1, summary_unit_id |-> 2, band_id |-> 0]),
    unit |-> (1 :> <<"M", "W">>) @@ (2 :> <<"G", "W", "h">>),
    sample |-> (1 :> [sample_name |-> <<"M", "e", "a", "n">>]),
    timeslice |-> (1 :> [timeslice_name |-> <<"A", "l", "l">>]),
    key |-> (7 :> [phase_id |-> 4, is_summary |-> FALSE, band_id |-> 1,
                   membership_id |-> 10, property_id |-> 3, sample_id |-> 1,
                   timeslice_id |-> 1])
            @@ (9 :> [phase_id |-> 4, is_summary |-> FALSE, band_id |-> 2,
                      membership_id |-> 10, property_id |-> 3, sample_id |-> 1,
                      timeslice_id |-> 1]),
    key_index |-> <<>>,
    period_data |-> <<>>,
    phase |-> [name \in PhaseNames |-> <<>>],
    period |-> [kind \in { Extractors[n].kind : n \in 1..Len(Extractors) } |-> <<>>],
    timestamp_block |-> <<>> ]

KeyIndex(period_type_id, position, length, period_offset) ==
  [period_type_id |-> period_type_id, position |-> position, length |-> length,
   period_offset |-> period_offset]

Positions == {0, 3, U64_MAX - 7} \cup { F64_BYTES * j : j \in 1..MaxPosSlots }
Lengths == (0..MaxLen) \cup {U64_MAX}
Offsets == {I64_MIN, -3, 0, 5, 10, I64_MAX - 1, I64_MAX}

FirstKeyIndexes ==
  { KeyIndex(t, p, l, o) : t \in {0, 1}, p \in Positions, l \in Lengths, o \in Offsets }

SecondKeyIndexes ==
  { KeyIndex(0, 0, 0, 0), KeyIndex(0, 8, 3, 10), KeyIndex(0, 3, 0, 0),
    KeyIndex(1, 5, 2, 0), KeyIndex(1, 0, 2, I64_MAX) }

\* the BIN files loaded: both, the second one ending inside a value, or the first only
PeriodDatas ==
  { (0 :> F64_BYTES * FileValues) @@ (1 :> F64_BYTES * 2 + 4), (0 :> F64_BYTES * 3) }

\* the derivations of with_xml_string_impl applied to a parsed catalog
\* the derivations of with_xml_string_impl that change the catalog
Loaded(c) ==
  update_collection_membership_count(
    update_timestamp_block(update_property_band_id(c), NameOrder(DOMAIN c.phase)))

NoPlan == [table_name |-> <<>>, key_ids |-> <<>>, estimated_values |-> 0]

\* the writer has not started; the catalog c is loaded
WriterInit(c) ==
  /\ cat = Loaded(c)
  /\ load_pc = "loaded"
  /\ mapping = update_table_key_indexes_mapping(Loaded(c)).mapping
  /\ zip = ZipIdle
  /\ duck = DuckIdle
  /\ planner = PlannerIdle
  /\ xml = <<>>
  /\ cli = CliIdle
  /\ pc = "idle"
  /\ plans = <<>>
  /\ table_idx = 0
  /\ w = AppendStart
  /\ tables = <<>>
  /\ error = NoErr
  /\ events = <<>>
  /\ worker_plans = <<>>
  /\ workers = <<>>
  /\ shards = <<>>
  /\ chan = <<>>
  /\ completed_tables = 0
  /\ coord_idx = 0

\* one key, or two keys of one table, or two keys of two tables
InitSeq ==
  /\ data_write_threads = SomeInt(1)
  /\ available = 1
  /\ \E k7 \in FirstKeyIndexes, pd \in PeriodDatas :
       \/ WriterInit([BaseCat EXCEPT !.key_index = (7 :> k7), !.period_data = pd])
       \/ \E k9 \in SecondKeyIndexes, s9 \in BOOLEAN :
            WriterInit([BaseCat EXCEPT !.key_index = (7 :> k7) @@ (9 :> k9),
                                       !.key[9].is_summary = s9,
                                       !.period_data = pd])

(***************************************************************************)
(* populate_table_data and the sequential writer                           *)
(***************************************************************************)
DataTableStart(index, total, plan) ==
  [event |-> "DataTableStart", worker_id |-> 0, index |-> index, total |-> total,
   table_name |-> plan.table_name, keys |-> Len(plan.key_ids)]

DataTableEnd ==
  [event |-> "DataTableEnd", worker_id |-> 0, index |-> 0, total |-> 0,
   table_name |-> <<>>, keys |-> 0]

\* populate_table_data up to the choice of the writer, W <= 1
PopulateSequential ==
  /\ pc = "idle"
  /\ load_pc = "loaded"
  /\ LET b == build_data_table_plans(cat, mapping, NameOrder(DOMAIN mapping))
         total_tables == Len(b.plans)
     IN /\ \/ ~b.ok
           \/ total_tables = 0
           \/ resolve_data_write_threads(total_tables, data_write_threads, available) <= 1
        /\ plans' = b.plans
        /\ pc' = IF ~b.ok THEN "failed" ELSE IF total_tables = 0 THEN "ok" ELSE "seq_next"
        /\ error' = IF ~b.ok THEN Err("PlanOverflow", 0, 0) ELSE error
        /\ table_idx' = 1
  /\ UNCHANGED << loader_vars, input_vars, w, tables, events, par_vars >>

\* the head of the loop of populate_table_data_sequential, then create_data_table
SeqBeginTable ==
  /\ pc = "seq_next"
  /\ table_idx <= Len(plans)
  /\ events' = Append(events, DataTableStart(table_idx, Len(plans), plans[table_idx]))
  /\ tables' = tables @@ (plans[table_idx].table_name :> <<>>)
  /\ w' = AppendStart
  /\ pc' = "seq_append"
  /\ UNCHANGED << loader_vars, input_vars, plans, table_idx, error, par_vars >>

\* append_single_data_table, one loop pass at a time; the flush commits the rows
SeqAppendStep ==
  /\ pc = "seq_append"
  /\ w.pc \notin {"done", "failed"}
  /\ w' = AppendStep(cat, plans[table_idx], w)
  /\ tables' = IF w.pc = "flush"
               THEN [tables EXCEPT ![plans[table_idx].table_name] = w.rows]
               ELSE tables
  /\ UNCHANGED << loader_vars, input_vars, pc, plans, table_idx, error, events, par_vars >>

\* append_single_data_table returned Ok
SeqEndTable ==
  /\ pc = "seq_append"
  /\ w.pc = "done"
  /\ events' = Append(events, DataTableEnd)
  /\ table_idx' = table_idx + 1
  /\ pc' = "seq_next"
  /\ UNCHANGED << loader_vars, input_vars, plans, w, tables, error, par_vars >>

\* append_single_data_table returned an error: the `?` returns it
SeqFail ==
  /\ pc = "seq_append"
  /\ w.pc = "failed"
  /\ pc' = "failed"
  /\ error' = w.err
  /\ UNCHANGED << loader_vars, input_vars, plans, table_idx, w, tables, events, par_vars >>

\* the loop is over
SeqFinish ==
  /\ pc = "seq_next"
  /\ table_idx > Len(plans)
  /\ pc' = "ok"
  /\ UNCHANGED << loader_vars, input_vars, plans, table_idx, w, tables, error, events,
                  par_vars >>

NextSeq ==
  \/ PopulateSequential
  \/ SeqBeginTable
  \/ SeqAppendStep
  \/ SeqEndTable
  \/ SeqFail
  \/ SeqFinish

\* the sequential writer (one writer thread) over catalogs with one or two keys
Spec == InitSeq /\ [][NextSeq]_vars


(***************************************************************************)
(* Properties of row production (sequential writer)                        *)
(***************************************************************************)
RowsOfKey(rows, key_id) == SelectSeq(rows, LAMBDA r : r.key_id = key_id)
BlockIds(rows) == [j \in 1..Len(rows) |-> rows[j].block_id]
Values(rows) == [j \in 1..Len(rows) |-> rows[j].value]

\* the sequential writer is inside append_single_data_table of plans[table_idx],
\* or has returned its error
InWrite == pc \in {"seq_append", "failed"} /\ table_idx \in 1..Len(plans)
CurPlan == plans[table_idx]
CurKeyId == CurPlan.key_ids[w.k]

\* the keys of the current plan whose loop pass is over
KeysWritten == { CurPlan.key_ids[j] : j \in 1..Min(w.k - 1, Len(CurPlan.key_ids)) }

\* o+1, ..., o+L
ExpectedBlockIds(ki) == [n \in 1..ki.length |-> ki.period_offset + n]

\* the double stored at byte offset off of the BIN file of a period type
LeDoubleAt(period_type_id, off) ==
  f64_from_le_bytes([j \in 1..F64_BYTES |-> FileByte(period_type_id, off + j - 1)])

ExpectedValues(ki) ==
  [n \in 1..ki.length |-> LeDoubleAt(ki.period_type_id, ki.position + F64_BYTES * (n - 1))]

\* C1: the rows emitted for a key that was written carry the block_id values
\* period_offset+1, ..., period_offset+length, each once, in this order; and so do
\* the rows of the key in the table of a run that succeeded.
C1_BlockIdsInOrder ==
  /\ InWrite =>
       \A k \in KeysWritten :
         BlockIds(RowsOfKey(w.rows, k)) = ExpectedBlockIds(cat.key_index[k])
  /\ pc = "ok" =>
       \A n \in DOMAIN tables : \A j \in 1..Len(mapping[n]) :
         BlockIds(RowsOfKey(tables[n], mapping[n][j]))
           = ExpectedBlockIds(cat.key_index[mapping[n][j]])

\* two keys of one table with period offsets 5 and 10 and three values each
C1_Witness ==
  /\ pc = "ok"
  /\ \E n \in DOMAIN tables : BlockIds(tables[n]) = <<6, 7, 8, 11, 12, 13>>

\* C2: after a successful run there is one table per name of the grouping, and
\* its row count is the sum of the lengths of the keys grouped under the name.
C2_RowCount ==
  pc = "ok" =>
    /\ DOMAIN tables = DOMAIN mapping
    /\ \A n \in DOMAIN tables :
         Len(tables[n])
           = SumSeq([j \in 1..Len(mapping[n]) |-> cat.key_index[mapping[n][j]].length])

\* a table whose only key has length 0 beside a table with rows
C2_Witness ==
  /\ pc = "ok"
  /\ \E n, m \in DOMAIN tables :
       /\ tables[n] = <<>>
       /\ \A j \in 1..Len(mapping[n]) : cat.key_index[mapping[n][j]].length = 0
       /\ Len(tables[m]) > DATA_READ_CHUNK_VALUES

\* C3: the value of the row with block_id i + period_offset + 1 is the double at
\* byte offset position + 8i of the BIN file of the key's period type, for every
\* i < length and wherever the chunk boundaries fall.
C3_ValuesRoundTrip ==
  /\ InWrite =>
       \A k \in KeysWritten :
         Values(RowsOfKey(w.rows, k)) = ExpectedValues(cat.key_index[k])
  /\ pc = "ok" =>
       \A n \in DOMAIN tables : \A j \in 1..Len(mapping[n]) :
         LET ki == cat.key_index[mapping[n][j]]
             rows == RowsOfKey(tables[n], mapping[n][j])
         IN \A i \in 0..(ki.length - 1) :
              \E r \in 1..Len(rows) :
                /\ rows[r].block_id = i + ki.period_offset + 1
                /\ rows[r].value
                     = LeDoubleAt(ki.period_type_id, ki.position + F64_BYTES * i)

\* a key that does not start at the head of its file and takes two full chunks
\* and a partial one has been written
C3_Witness ==
  /\ pc = "ok"
  /\ \E n \in DOMAIN tables : \E j \in 1..Len(mapping[n]) :
       LET ki == cat.key_index[mapping[n][j]] IN
       /\ ki.length = 2 * DATA_READ_CHUNK_VALUES + 1
       /\ ki.position > 0
       /\ Len(RowsOfKey(tables[n], mapping[n][j])) = ki.length


\* index i of key ki yields a row without wrapped arithmetic: i*8, position + 8*i
\* and i + period_offset + 1 are representable in their types
Representable(ki, i) ==
  /\ i * F64_BYTES <= U64_MAX
  /\ ki.position + F64_BYTES * i <= U64_MAX
  /\ i + ki.period_offset + 1 <= I64_MAX
  /\ i + ki.period_offset + 1 >= I64_MIN

\* the write of the current table failed inside the chunk loop of key CurKeyId
FailedInChunk == InWrite /\ w.pc = "failed" /\ w.err.kind \in {"Overflow", "IoFailure"}

\* the indices of the chunk the writer is at
ChunkIndices(ki) == { i \in w.i..(w.i + DATA_READ_CHUNK_VALUES - 1) : i < ki.length }

\* the read of the chunk the writer is at finds all its bytes in the file
ChunkReadable(ki) ==
  ki.position + F64_BYTES * w.i + F64_BYTES * Min(ki.length - w.i, DATA_READ_CHUNK_VALUES)
    <= cat.period_data[ki.period_type_id]

\* a byte position that is not a multiple of 8
OffBoundary(position) == position % 8 # 0

\* C8 as claimed: the write of a table that holds a key with a misaligned position
\* ends with the misalignment error that names this key and its position, and no
\* row of the key is emitted.
C8_Original ==
  (InWrite /\ w.pc \in {"done", "failed"}) =>
    \A j \in 1..Len(CurPlan.key_ids) :
      LET k == CurPlan.key_ids[j] IN
      OffBoundary(cat.key_index[k].position) =>
        /\ w.pc = "failed"
        /\ w.err = Err("Misaligned", k, cat.key_index[k].position)
        /\ RowsOfKey(w.rows, k) = <<>>

\* C8, amended: the write of a table that holds a misaligned key never succeeds,
\* whatever the key's length, and no row of such a key is ever emitted; the error
\* is the misalignment error naming the key and its position when the write fails
\* at this key and the BIN file of the key's period type is loaded (the lookup of
\* the file comes first, and an earlier key of the table may fail before).
C8_MisalignedFails ==
  InWrite =>
    /\ \A j \in 1..Len(CurPlan.key_ids) :
         LET k == CurPlan.key_ids[j] IN
         OffBoundary(cat.key_index[k].position) =>
           /\ w.pc # "done"
           /\ w.pc # "flush"
           /\ RowsOfKey(w.rows, k) = <<>>
           /\ RowsOfKey(tables[CurPlan.table_name], k) = <<>>
    /\ (w.pc = "failed" /\ w.k <= Len(CurPlan.key_ids)) =>
         LET ki == cat.key_index[CurKeyId] IN
         (OffBoundary(ki.position) /\ ki.period_type_id \in DOMAIN cat.period_data)
           => w.err = Err("Misaligned", CurKeyId, ki.position)

\* the second key of a table, of length 0 and at position 3, fails the write after
\* the first key was written
C8_Witness ==
  /\ InWrite
  /\ w.pc = "failed"
  /\ w.k = 2
  /\ w.err = Err("Misaligned", 9, 3)
  /\ cat.key_index[9].length = 0
  /\ Len(w.rows) > 0

\* C9 as claimed: when a row of the chunk the write failed in is not representable,
\* the error is the overflow error.
C9_Original ==
  (FailedInChunk /\ \E i \in ChunkIndices(cat.key_index[CurKeyId]) :
                       ~Representable(cat.key_index[CurKeyId], i))
    => w.err.kind = "Overflow"

\* C9, amended: no row is emitted from wrapped arithmetic. Every emitted row of a
\* key is the row of a representable index and its block_id is the mathematical
\* i + period_offset + 1; a write that succeeds has no unrepresentable index in
\* any of its keys; and a write that fails at an unrepresentable row fails with
\* the overflow error unless the read of the chunk holding the row failed first
\* (then it is the read error).
C9_NoWrappedRow ==
  InWrite =>
    /\ \A j \in 1..Len(CurPlan.key_ids) :
         LET k == CurPlan.key_ids[j]
             ki == cat.key_index[k]
             rows == RowsOfKey(w.rows, k)
         IN /\ \A r \in 1..Len(rows) :
                 /\ Representable(ki, r - 1)
                 /\ rows[r].block_id = (r - 1) + ki.period_offset + 1
            /\ w.pc \in {"flush", "done"} =>
                 \A i \in 0..(ki.length - 1) : Representable(ki, i)
    /\ FailedInChunk =>
         LET ki == cat.key_index[CurKeyId]
             next == Len(RowsOfKey(w.rows, CurKeyId))
         IN /\ (~Representable(ki, next) /\ ChunkReadable(ki)) => w.err.kind = "Overflow"
            /\ w.err.kind = "IoFailure" => ~ChunkReadable(ki)
            /\ w.err.kind = "Overflow" => ~Representable(ki, next)

\* the block_id of the second row of a chunk overflows: the first row of the chunk
\* was emitted, the write failed with the overflow error
C9_Witness ==
  /\ FailedInChunk
  /\ w.err.kind = "Overflow"
  /\ LET ki == cat.key_index[CurKeyId]
         next == Len(RowsOfKey(w.rows, CurKeyId))
     IN /\ next > w.i
        /\ next + ki.period_offset + 1 > I64_MAX
        /\ Representable(ki, next - 1)


(***************************************************************************)
(* The catalog loader: the derivations of with_xml_string_impl             *)
(***************************************************************************)
\* the largest band_id a key carries
MaxBand == 3

StrA == <<"A">>
StrP == <<"P">>
StrQ == <<"Q">>
CollNames == { StrA, <<"A", " ", "B">>, <<"A", "-", "B">>, <<"A", "_", "_", "B">> }
PropNames == { StrP, <<"B", "_", "_", "P">> }
SummaryNames == { StrQ, StrP }
Bands == {-2, 0} \cup (1..MaxBand)

\* the writer's variables before any writer runs
WriterIdle ==
  /\ data_write_threads = SomeInt(1)
  /\ available = 1
  /\ zip = ZipIdle
  /\ duck = DuckIdle
  /\ planner = PlannerIdle
  /\ xml = <<>>
  /\ cli = CliIdle
  /\ pc = "idle"
  /\ plans = <<>>
  /\ table_idx = 0
  /\ w = AppendStart
  /\ tables = <<>>
  /\ error = NoErr
  /\ events = <<>>
  /\ worker_plans = <<>>
  /\ workers = <<>>
  /\ shards = <<>>
  /\ chan = <<>>
  /\ completed_tables = 0
  /\ coord_idx = 0

Property(name, summary_name, is_summary) ==
  [name |-> name, summary_name |-> summary_name, is_summary |-> is_summary,
   unit_id |-> 1, summary_unit_id |-> 2, band_id |-> 0]

Key(phase_id, is_summary, band_id, membership_id, property_id) ==
  [phase_id |-> phase_id, is_summary |-> is_summary, band_id |-> band_id,
   membership_id |-> membership_id, property_id |-> property_id, sample_id |-> 1,
   timeslice_id |-> 1]

\* parsed catalogs that differ in the names the table names are made of: two
\* collections of two parent classes, two properties, three keys with a KeyIndex
NameCats ==
  { [ BaseCat EXCEPT
        !.collection = (1 :> [name |-> c1, complement_name |-> x1,
                              parent_class_id |-> 1, n_members |-> 0])
                       @@ (2 :> [name |-> c2, complement_name |-> NoneStr,
                                 parent_class_id |-> 2, n_members |-> 0]),
        !.membership = (10 :> [collection_id |-> 1, collection_idx |-> 0])
                       @@ (11 :> [collection_id |-> 2, collection_idx |-> 0]),
        !.property = (3 :> Property(p3, s3, f3)) @@ (4 :> Property(p4, StrQ, TRUE)),
        !.key = (7 :> Key(4, k7, 1, 10, 3)) @@ (8 :> Key(4, FALSE, 1, 10, 4))
                @@ (9 :> Key(4, k9, 1, m9, q9)),
        !.key_index = (7 :> KeyIndex(0, 0, 1, 0)) @@ (8 :> KeyIndex(0, 8, 1, 0))
                      @@ (9 :> KeyIndex(0, 16, 1, 0)),
        !.period_data = (0 :> F64_BYTES * 3) ] :
      c1 \in CollNames, x1 \in {NoneStr, Some(<<"X">>)}, c2 \in CollNames,
      p3 \in PropNames, s3 \in SummaryNames, f3 \in BOOLEAN, p4 \in PropNames,
      k7 \in BOOLEAN, k9 \in BOOLEAN, m9 \in {10, 11}, q9 \in {3, 4} }

\* parsed catalogs that differ in the bands of the keys: three keys of two
\* properties; keys 8 and 9 have no KeyIndex and may name a property that is
\* not in the catalog (5)
BandCats ==
  { [ BaseCat EXCEPT
        !.property = (3 :> Property(StrP, StrQ, TRUE)) @@ (4 :> Property(StrQ, StrP, FALSE)),
        !.key = (7 :> Key(4, FALSE, b7, 10, q7)) @@ (8 :> Key(4, FALSE, b8, 10, q8))
                @@ (9 :> Key(4, TRUE, b9, 10, q9)),
        !.key_index = (7 :> KeyIndex(0, 0, 2, 0)),
        !.period_data = (0 :> F64_BYTES * 3) ] :
      b7 \in Bands, b8 \in Bands, b9 \in Bands,
      q7 \in {3, 4}, q8 \in {3, 4, 5}, q9 \in {3, 4, 5} }

\* a catalog whose KeyIndex names a key of a property that is not in the catalog
BrokenCats ==
  { [ BaseCat EXCEPT !.key[7].property_id = 5, !.key_index = (7 :> KeyIndex(0, 0, 2, 0)) ] }

\* catalogs with one reference that does not resolve: a field of key 7 (which
\* has a KeyIndex) or of key 9 (which has none), or the key_id of a KeyIndex
DanglingCats ==
  { [ BaseCat EXCEPT !.key[k] = [@ EXCEPT ![f] = 99],
                     !.key_index = (7 :> KeyIndex(0, 0, 2, 0)),
                     !.period_data = (0 :> F64_BYTES * 3) ] :
      k \in {7, 9}, f \in {"membership_id", "property_id", "sample_id", "timeslice_id"} }
  \cup { [ BaseCat EXCEPT !.key_index = (7 :> KeyIndex(0, 0, 2, 0)) @@ (5 :> KeyIndex(0, 8, 1, 0)),
                          !.period_data = (0 :> F64_BYTES * 3) ] }

\* parsed catalogs that differ in the memberships: up to four memberships of
\* collections 1 and 2 and of a collection that is not in the catalog (3)
MemberCats ==
  UNION { { [ BaseCat EXCEPT
                !.collection = (1 :> [name |-> Gen, complement_name |-> NoneStr,
                                      parent_class_id |-> 1, n_members |-> 0])
                               @@ (2 :> [name |-> StrA, complement_name |-> NoneStr,
                                         parent_class_id |-> 2, n_members |-> 0]),
                !.membership = [m \in ids |-> [collection_id |-> c[m], collection_idx |-> 0]],
                !.key_index = (7 :> KeyIndex(0, 0, 2, 0)),
                !.period_data = (0 :> F64_BYTES * 3) ] :
            c \in [ids -> {1, 2, 3}] } :
          ids \in SUBSET (10..13) }

StampIds == 3

\* phase entries and period records that match, and that do not
StampCats ==
  { [ BaseCat EXCEPT
        !.phase = [BaseCat.phase EXCEPT ![phase_name(1)] = lt, ![phase_name(4)] = st],
        !.period = [BaseCat.period EXCEPT !["interval"] = iv, !["day"] = dy] ] :
      lt \in UNION { [S -> {1, 2}] : S \in SUBSET (1..StampIds) },
      st \in UNION { [S -> {5}] : S \in SUBSET {StampIds} },
      iv \in { [i \in S |-> [datetime |-> 10 + i]] : S \in SUBSET (1..StampIds) },
      dy \in { [i \in S |-> [datetime |-> 20 + i]] : S \in SUBSET {1, StampIds} } }

InitLoad ==
  /\ cat \in NameCats \cup BandCats \cup BrokenCats \cup MemberCats \cup DanglingCats
             \cup StampCats
  /\ load_pc = "parsed"
  /\ mapping = <<>>
  /\ WriterIdle

\* self.update_property_band_id()?
LoadUpdatePropertyBandId ==
  /\ load_pc = "parsed"
  /\ cat' = update_property_band_id(cat)
  /\ load_pc' = "banded"
  /\ UNCHANGED << mapping, input_vars, pc, plans, seq_vars, tables, error, events, par_vars >>

\* self.update_timestamp_block()?
LoadUpdateTimestampBlock ==
  /\ load_pc = "banded"
  /\ \E order \in IterationOrders(DOMAIN cat.phase) :
       cat' = update_timestamp_block(cat, order)
  /\ load_pc' = "stamped"
  /\ UNCHANGED << mapping, input_vars, pc, plans, seq_vars, tables, error, events, par_vars >>

\* self.update_collection_membership_count()?
LoadUpdateCollectionMembershipCount ==
  /\ load_pc = "stamped"
  /\ cat' = update_collection_membership_count(cat)
  /\ load_pc' = "counted"
  /\ UNCHANGED << mapping, input_vars, pc, plans, seq_vars, tables, error, events, par_vars >>

\* self.update_table_key_indexes_mapping()?, the last step of the load
LoadUpdateTableKeyIndexesMapping ==
  /\ load_pc = "counted"
  /\ LET r == update_table_key_indexes_mapping(cat) IN
     /\ mapping' = r.mapping
     /\ load_pc' = IF r.ok THEN "loaded" ELSE "failed"
  /\ UNCHANGED << cat, input_vars, pc, plans, seq_vars, tables, error, events, par_vars >>

NextLoad ==
  \/ LoadUpdatePropertyBandId
  \/ LoadUpdateTimestampBlock
  \/ LoadUpdateCollectionMembershipCount
  \/ LoadUpdateTableKeyIndexesMapping

\* the catalog loader over catalogs that differ in names and in bands
SpecLoad == InitLoad /\ [][NextLoad]_vars

RECURSIVE IndexMapInsert(_, _)
\* IndexMap::insert of every row in turn: a new key goes to the end, a key
\* that is present keeps its place and takes the new value
IndexMapInsert(entries, rows) ==
  IF rows = <<>> THEN entries
  ELSE LET row == Head(rows)
           membership == [collection_id |-> row.collection_id, collection_idx |-> 0]
           at == { j \in 1..Len(entries) : entries[j].key = row.membership_id }
       IN IndexMapInsert(
            IF at = {} THEN Append(entries, [key |-> row.membership_id, val |-> membership])
            ELSE [j \in 1..Len(entries) |->
                    IF j \in at THEN [entries[j] EXCEPT !.val = membership] ELSE entries[j]],
            Tail(rows))

\* IndexMap::sort_keys: the entries in ascending order of their keys; the
\* catalog holds such a map as a function, iterated with SortedSeq
sort_keys(entries) ==
  [k \in { entries[j].key : j \in 1..Len(entries) } |->
     (CHOOSE e \in SeqToSet(entries) : e.key = k).val]

\* parse_membership: one insert per t_membership node, then sort_keys
parse_membership(rows) == sort_keys(IndexMapInsert(<<>>, rows))

\* self.parse_membership(&node)? for the t_membership nodes of the document
LoadParseMembership ==
  /\ load_pc = "read"
  /\ cat' = [cat EXCEPT !.membership = parse_membership(xml)]
  /\ load_pc' = "parsed"
  /\ UNCHANGED << mapping, input_vars, pc, plans, seq_vars, tables, error, events, par_vars >>

MaxRows == 3

\* documents of one to MaxRows t_membership rows, ids and collections in any order
MemberDocs ==
  UNION { [1..n -> [membership_id : 10..12, collection_id : 1..2]] : n \in 1..MaxRows }

\* the document is read, its memberships are not parsed yet
InitParse ==
  /\ \E c \in MemberCats : DOMAIN c.membership = {} /\ cat = c
  /\ load_pc = "read"
  /\ mapping = <<>>
  /\ data_write_threads = SomeInt(1)
  /\ available = 1
  /\ zip = ZipIdle
  /\ duck = DuckIdle
  /\ planner = PlannerIdle
  /\ xml \in MemberDocs
  /\ cli = CliIdle
  /\ pc = "idle"
  /\ plans = <<>>
  /\ table_idx = 0
  /\ w = AppendStart
  /\ tables = <<>>
  /\ error = NoErr
  /\ events = <<>>
  /\ worker_plans = <<>>
  /\ workers = <<>>
  /\ shards = <<>>
  /\ chan = <<>>
  /\ completed_tables = 0
  /\ coord_idx = 0

NextParse ==
  \/ LoadParseMembership
  \/ NextLoad

\* the loader from the parse of the memberships on
SpecParse == InitParse /\ [][NextParse]_vars


(***************************************************************************)
(* The report views: the parse of a table name                             *)
(***************************************************************************)
\* table_name.split("__").next(), .nth(1), .nth(3) of create_report_views
ReportViewParts(table_name) ==
  LET parts == SplitDunder(table_name) IN
  [ok |-> Len(parts) >= 4,
   phase_name |-> parts[1],
   period_name |-> IF Len(parts) >= 2 THEN parts[2] ELSE <<>>,
   property_name |-> IF Len(parts) >= 4 THEN parts[4] ELSE <<>>]

(***************************************************************************)
(* Properties of the loaded catalog                                        *)
(***************************************************************************)
IsLoaded == load_pc = "loaded"
IndexedKeys == DOMAIN cat.key_index
\* the table the loaded mapping files key_id under
TableOf(key_id) == CHOOSE n \in DOMAIN mapping : key_id \in SeqToSet(mapping[n])
CollectionIdOf(key_id) == cat.membership[cat.key[key_id].membership_id].collection_id
PropertyOf(key_id) == cat.property[cat.key[key_id].property_id]
PrefixOf(collection_id) ==
  LET c == cat.collection[collection_id] IN
  IF c.complement_name.some THEN c.complement_name.val ELSE cat.class[c.parent_class_id].name
EndsWith(s, t) == Len(s) >= Len(t) /\ SubSeq(s, Len(s) - Len(t) + 1, Len(s)) = t
SetMax(S) == CHOOSE m \in S : \A x \in S : x <= m
KeysOfProperty(p) == { k \in DOMAIN cat.key : cat.key[k].property_id = p }

\* C5 as stated: the collection segment of the table name of every key is the
\* qualified name prefix_name (the complement name, else the parent class
\* name, as prefix), so keys of two collections of one name with two prefixes
\* are in two tables.
C5_Original ==
  IsLoaded =>
    /\ \A k \in IndexedKeys :
         SplitDunder(TableOf(k))[3] = NormaliseName(collection_name(cat, CollectionIdOf(k)))
    /\ \A k1 \in IndexedKeys, k2 \in IndexedKeys :
         ( /\ cat.collection[CollectionIdOf(k1)].name = cat.collection[CollectionIdOf(k2)].name
           /\ PrefixOf(CollectionIdOf(k1)) # PrefixOf(CollectionIdOf(k2)) )
         => TableOf(k1) # TableOf(k2)

\* C6 as stated: the property segment is the property's summary_name whenever
\* the key is a summary key, whatever the property's own is_summary flag, and
\* the property's name otherwise.
C6_Original ==
  IsLoaded =>
    \A k \in IndexedKeys :
      EndsWith(TableOf(k),
               Dunder \o NormaliseName(IF cat.key[k].is_summary THEN PropertyOf(k).summary_name
                                       ELSE PropertyOf(k).name))

\* C6: the property segment of the table name of a key is the property's
\* summary_name when both the key and the property are flagged is_summary, and
\* the property's name in every other case; a summary key and a non-summary key
\* of one property (same phase, period and collection) whose is_summary is set
\* and whose normalised name and summary_name differ are in two tables.
C6_DisplayName ==
  IsLoaded =>
    /\ \A k \in IndexedKeys :
         EndsWith(TableOf(k),
                  Dunder \o NormaliseName(IF cat.key[k].is_summary /\ PropertyOf(k).is_summary
                                          THEN PropertyOf(k).summary_name
                                          ELSE PropertyOf(k).name))
    /\ \A k1 \in IndexedKeys, k2 \in IndexedKeys :
         ( /\ cat.key[k1].property_id = cat.key[k2].property_id
           /\ CollectionIdOf(k1) = CollectionIdOf(k2)
           /\ cat.key[k1].phase_id = cat.key[k2].phase_id
           /\ cat.key_index[k1].period_type_id = cat.key_index[k2].period_type_id
           /\ cat.key[k1].is_summary /\ ~cat.key[k2].is_summary
           /\ PropertyOf(k1).is_summary
           /\ NormaliseName(PropertyOf(k1).name) # NormaliseName(PropertyOf(k1).summary_name) )
         => TableOf(k1) # TableOf(k2)

\* a summary key of a property that is not flagged is filed under the
\* property's name, and a summary and a non-summary key of a flagged property
\* are in two tables
C6_Witness ==
  /\ IsLoaded
  /\ \E k \in IndexedKeys :
       /\ cat.key[k].is_summary /\ ~PropertyOf(k).is_summary
       /\ PropertyOf(k).name # PropertyOf(k).summary_name
       /\ EndsWith(TableOf(k), Dunder \o PropertyOf(k).name)
  /\ \E k1 \in IndexedKeys, k2 \in IndexedKeys :
       /\ cat.key[k1].property_id = cat.key[k2].property_id
       /\ CollectionIdOf(k1) = CollectionIdOf(k2)
       /\ cat.key[k1].is_summary /\ ~cat.key[k2].is_summary /\ PropertyOf(k1).is_summary
       /\ TableOf(k1) # TableOf(k2)

\* the (phase, period, collection, property display name) a key's table name
\* is built from
NameTuple(key_id) ==
  << phase_name(cat.key[key_id].phase_id), period_name(cat.key_index[key_id].period_type_id),
     CollectionIdOf(key_id), PropertyDisplayName(cat, key_id) >>

\* C7 as stated: the parse of a table name at "__" gives back the phase name,
\* the period name and (as the fourth segment) the property display name the
\* name was built from, and two keys that differ in (phase, period, collection,
\* property display name) never share a table name.
C7_Original ==
  IsLoaded =>
    /\ \A k \in IndexedKeys :
         LET parts == ReportViewParts(TableOf(k)) IN
         /\ parts.ok
         /\ parts.phase_name = NormaliseName(phase_name(cat.key[k].phase_id))
         /\ parts.period_name = NormaliseName(period_name(cat.key_index[k].period_type_id))
         /\ parts.property_name = NormaliseName(PropertyDisplayName(cat, k))
    /\ \A k1 \in IndexedKeys, k2 \in IndexedKeys :
         NameTuple(k1) # NameTuple(k2) => TableOf(k1) # TableOf(k2)

\* C10 as stated: after the load the band_id of a property is the maximum of
\* the band_ids of the keys that name it.
C10_Original ==
  load_pc \in {"banded", "stamped", "counted", "loaded"} =>
    \A p \in DOMAIN cat.property :
      KeysOfProperty(p) # {} =>
        cat.property[p].band_id = SetMax({ cat.key[k].band_id : k \in KeysOfProperty(p) })

\* C10: after the load the band_id of a property is the maximum of 0 (the
\* value the parse gives it) and the band_ids of all the keys that name it, in
\* whatever order the keys come; a property no key names keeps 0.
C10_BandIsMax ==
  load_pc \in {"banded", "stamped", "counted", "loaded"} =>
    \A p \in DOMAIN cat.property :
      cat.property[p].band_id = SetMax({0} \cup { cat.key[k].band_id : k \in KeysOfProperty(p) })

\* one property whose keys all carry negative bands keeps 0, and another one
\* takes the largest band of several keys, which is not the last key's
C10_Witness ==
  /\ IsLoaded
  /\ \E p \in DOMAIN cat.property :
       /\ KeysOfProperty(p) # {}
       /\ \A k \in KeysOfProperty(p) : cat.key[k].band_id < 0
       /\ cat.property[p].band_id = 0
  /\ \E p \in DOMAIN cat.property :
       /\ Cardinality(KeysOfProperty(p)) = 2
       /\ cat.property[p].band_id = MaxBand
       /\ cat.key[SetMax(KeysOfProperty(p))].band_id < MaxBand


(***************************************************************************)
(* The parallel writer                                                     *)
(***************************************************************************)
\* a faulty variant: of equally loaded workers the last is taken
MinLoadIdx_Last(worker_loads) ==
  CHOOSE i \in 1..Len(worker_loads) :
    /\ \A j \in 1..Len(worker_loads) : worker_loads[i] <= worker_loads[j]
    /\ \A j \in (i + 1)..Len(worker_loads) : worker_loads[j] > worker_loads[i]

\* the index of the first smallest load: iter().enumerate().min_by_key(..)
MinLoadIdx(worker_loads) ==
  CHOOSE i \in 1..Len(worker_loads) :
    /\ \A j \in 1..Len(worker_loads) : worker_loads[i] <= worker_loads[j]
    /\ \A j \in 1..(i - 1) : worker_loads[j] > worker_loads[i]

saturating_add_u128(a, b) == Min(a + b, U128_MAX)

RECURSIVE Distribute(_, _, _)
\* the loop `for plan in plans` of distribute_data_table_plans
Distribute(plans_left, worker_plans_acc, worker_loads) ==
  IF plans_left = <<>> THEN worker_plans_acc
  ELSE LET plan == Head(plans_left)
           worker_idx == MinLoadIdx(worker_loads)
       IN Distribute(Tail(plans_left),
                     [worker_plans_acc EXCEPT ![worker_idx] = Append(@, plan)],
                     [worker_loads EXCEPT ![worker_idx] =
                        saturating_add_u128(@, plan.estimated_values)])

\* distribute_data_table_plans: greedy, heaviest plan first, empty workers dropped
distribute_data_table_plans(all_plans, worker_count) ==
  SelectSeq(Distribute(all_plans, [i \in 1..worker_count |-> <<>>],
                       [i \in 1..worker_count |-> 0]),
            LAMBDA p : p # <<>>)

WorkerEvent(event, worker_idx, index, total, plan) ==
  [event |-> event, worker_id |-> worker_idx - 1, index |-> index, total |-> total,
   table_name |-> plan.table_name, keys |-> Len(plan.key_ids)]

\* report_duckdb_progress(progress, text)
ProgressMessage(text) ==
  [event |-> text, worker_id |-> 0, index |-> 0, total |-> 0, table_name |-> <<>>,
   keys |-> 0]

\* a faulty variant: the index counts from 0 (idx instead of merge_index)
DataMergeTableStart_FromZero(index, total) ==
  [event |-> "DataMergeTableStart", worker_id |-> 0, index |-> index - 1, total |-> total,
   table_name |-> <<"s", "h", "a", "r", "d", " ", Digits[index]>>, keys |-> 0]

\* table_name is format!("shard {}", merge_index)
DataMergeTableStart(index, total) ==
  [event |-> "DataMergeTableStart", worker_id |-> 0, index |-> index, total |-> total,
   table_name |-> <<"s", "h", "a", "r", "d", " ", Digits[index + 1]>>, keys |-> 0]

DataMergeTableEnd(index, total) ==
  [event |-> "DataMergeTableEnd", worker_id |-> 0, index |-> index, total |-> total,
   table_name |-> <<>>, keys |-> 0]

Reverse(s) == [j \in 1..Len(s) |-> s[Len(s) + 1 - j]]

\* a faulty variant: the copy replaces what the target holds
CopyFromDatabase_Replace(target, shard, reversed) ==
  [n \in DOMAIN shard |-> IF reversed THEN Reverse(shard[n]) ELSE shard[n]]

\* COPY FROM DATABASE shard TO target; the shard was written with
\* preserve_insertion_order = false, so the rows may come in another order
CopyFromDatabase(target, shard, reversed) ==
  target @@ [n \in DOMAIN shard |-> IF reversed THEN Reverse(shard[n]) ELSE shard[n]]

\* populate_table_data up to the spawn of the workers, W > 1
PopulateParallel ==
  /\ pc = "idle"
  /\ load_pc = "loaded"
  /\ LET b == build_data_table_plans(cat, mapping, NameOrder(DOMAIN mapping))
         total_tables == Len(b.plans)
         worker_count == resolve_data_write_threads(total_tables, data_write_threads,
                                                    available)
         wp == distribute_data_table_plans(b.plans, worker_count)
     IN /\ b.ok
        /\ total_tables # 0
        /\ worker_count > 1
        /\ plans' = b.plans
        /\ worker_plans' = wp
        /\ workers' = [i \in 1..Len(wp) |-> [pc |-> "next", idx |-> 1, err |-> NoErr]]
        /\ shards' = [i \in 1..Len(wp) |-> <<>>]
  /\ chan' = <<>>
  /\ completed_tables' = 0
  /\ pc' = "par_recv"
  /\ UNCHANGED << loader_vars, input_vars, seq_vars, tables, error, events, coord_idx >>

\* worker: the head of its loop and worker_tx.send(TableStarted)
WorkerTableStarted(i) ==
  /\ workers[i].pc = "next"
  /\ workers[i].idx <= Len(worker_plans[i])
  /\ chan' = Append(chan, WorkerEvent("TableStarted", i, workers[i].idx,
                                      Len(worker_plans[i]), worker_plans[i][workers[i].idx]))
  /\ workers' = [workers EXCEPT ![i].pc = "append"]
  /\ UNCHANGED << loader_vars, input_vars, pc, plans, seq_vars, tables, error, events,
                  worker_plans, shards, completed_tables, coord_idx >>

\* worker: append_single_data_table into its own staging database
WorkerAppend(i) ==
  /\ workers[i].pc = "append"
  /\ LET plan == worker_plans[i][workers[i].idx]
         r == append_single_data_table(cat, plan)
     IN /\ shards' = [shards EXCEPT ![i] = @ @@ (plan.table_name :> r.rows)]
        /\ workers' = [workers EXCEPT
                         ![i].pc = IF r.pc = "failed" THEN "failed" ELSE "completed",
                         ![i].err = r.err]
  /\ UNCHANGED << loader_vars, input_vars, pc, plans, seq_vars, tables, error, events,
                  worker_plans, chan, completed_tables, coord_idx >>

\* worker: the thread panics inside append_single_data_table; the unwinding
\* drops its sender
WorkerPanic(i) ==
  /\ workers[i].pc = "append"
  /\ workers' = [workers EXCEPT ![i].pc = "panicked"]
  /\ UNCHANGED << loader_vars, input_vars, pc, plans, seq_vars, tables, error, events,
                  worker_plans, shards, chan, completed_tables, coord_idx >>

\* worker: worker_tx.send(TableCompleted) and the next pass of its loop
WorkerTableCompleted(i) ==
  /\ workers[i].pc = "completed"
  /\ chan' = Append(chan, WorkerEvent("TableCompleted", i, workers[i].idx,
                                      Len(worker_plans[i]), worker_plans[i][workers[i].idx]))
  /\ workers' = [workers EXCEPT ![i].pc = "next", ![i].idx = @ + 1]
  /\ UNCHANGED << loader_vars, input_vars, pc, plans, seq_vars, tables, error, events,
                  worker_plans, shards, completed_tables, coord_idx >>

\* worker: its loop is over, Ok(StagedDataShard)
WorkerFinish(i) ==
  /\ workers[i].pc = "next"
  /\ workers[i].idx > Len(worker_plans[i])
  /\ workers' = [workers EXCEPT ![i].pc = "done"]
  /\ UNCHANGED << loader_vars, input_vars, pc, plans, seq_vars, tables, error, events,
                  worker_plans, shards, chan, completed_tables, coord_idx >>


\* a faulty variant: a completed table is reported without its worker end event
ReportWorkerEvent_NoEnd(event, completed, total_tables) ==
  IF event.event = "TableStarted"
  THEN << [event EXCEPT !.event = "DataWorkerTableStart"] >>
  ELSE << [event EXCEPT !.event = "DataTableStart", !.worker_id = 0,
                        !.index = completed, !.total = total_tables],
          DataTableEnd >>

\* the progress events the coordinator reports for one worker event
ReportWorkerEvent(event, completed, total_tables) ==
  IF event.event = "TableStarted"
  THEN << [event EXCEPT !.event = "DataWorkerTableStart"] >>
  ELSE << [event EXCEPT !.event = "DataWorkerTableEnd", !.table_name = <<>>, !.keys = 0],
          [event EXCEPT !.event = "DataTableStart", !.worker_id = 0,
                        !.index = completed, !.total = total_tables],
          DataTableEnd >>

\* a faulty variant: the coordinator reports the event and does not count it
CoordRecv_NoCount ==
  /\ pc = "par_recv"
  /\ completed_tables < Len(plans)
  /\ chan # <<>>
  /\ events' = events \o ReportWorkerEvent(Head(chan), completed_tables, Len(plans))
  /\ chan' = Tail(chan)
  /\ UNCHANGED << loader_vars, input_vars, pc, plans, seq_vars, tables, error,
                  worker_plans, workers, shards, completed_tables, coord_idx >>

\* coordinator: rx.recv() gives the oldest event of the channel
CoordRecv ==
  /\ pc = "par_recv"
  /\ completed_tables < Len(plans)
  /\ chan # <<>>
  /\ LET event == Head(chan)
         completed == IF event.event = "TableCompleted" THEN completed_tables + 1
                      ELSE completed_tables
     IN /\ events' = events \o ReportWorkerEvent(event, completed, Len(plans))
        /\ completed_tables' = completed
  /\ chan' = Tail(chan)
  /\ UNCHANGED << loader_vars, input_vars, pc, plans, seq_vars, tables, error,
                  worker_plans, workers, shards, coord_idx >>

\* std::thread::scope after its closure has returned an error with the
\* handles not joined: it waits for every thread, and panics itself when a
\* thread whose handle was not joined has panicked
ScopeExit(unjoined) ==
  IF \E i \in unjoined : workers[i].pc = "panicked" THEN "panicked" ELSE "failed"

\* a faulty variant: the coordinator goes on to the join when the channel closes
CoordChannelClosed_Join ==
  /\ pc = "par_recv"
  /\ completed_tables < Len(plans)
  /\ chan = <<>>
  /\ \A i \in 1..Len(workers) : workers[i].pc \in {"done", "failed", "panicked"}
  /\ pc' = "par_join"
  /\ coord_idx' = 1
  /\ UNCHANGED << loader_vars, input_vars, plans, seq_vars, tables, error, events,
                  worker_plans, workers, shards, chan, completed_tables >>

\* coordinator: rx.recv() fails, the channel is empty and every sender is
\* dropped (every worker has returned or panicked); the `?` leaves the scope
\* with the error, which holds the two counts, and no handle is joined
CoordChannelClosed ==
  /\ pc = "par_recv"
  /\ completed_tables < Len(plans)
  /\ chan = <<>>
  /\ \A i \in 1..Len(workers) : workers[i].pc \in {"done", "failed", "panicked"}
  /\ pc' = ScopeExit(1..Len(workers))
  /\ error' = IF ScopeExit(1..Len(workers)) = "failed"
              THEN Err("ChannelClosed", completed_tables, Len(plans)) ELSE error
  /\ UNCHANGED << loader_vars, input_vars, plans, seq_vars, tables, events, par_vars >>

\* coordinator: all tables completed, the loop is over
CoordLoopExit ==
  /\ pc = "par_recv"
  /\ ~(completed_tables < Len(plans))
  /\ events' = Append(events, ProgressMessage("Finalizing staged worker shards"))
  /\ coord_idx' = 1
  /\ pc' = "par_join"
  /\ UNCHANGED << loader_vars, input_vars, plans, seq_vars, tables, error, worker_plans,
                  workers, shards, chan, completed_tables >>

\* coordinator: handle.join() of the next worker, which waits for its return
CoordJoin ==
  /\ pc = "par_join"
  /\ coord_idx <= Len(workers)
  /\ workers[coord_idx].pc \in {"done", "failed", "panicked"}
  /\ IF workers[coord_idx].pc = "done"
     THEN /\ coord_idx' = coord_idx + 1
          /\ UNCHANGED << error, pc >>
     ELSE /\ \A i \in (coord_idx + 1)..Len(workers) :
               workers[i].pc \in {"done", "failed", "panicked"}
          /\ pc' = ScopeExit((coord_idx + 1)..Len(workers))
          /\ error' = IF ScopeExit((coord_idx + 1)..Len(workers)) # "failed" THEN error
                      ELSE IF workers[coord_idx].pc = "panicked"
                      THEN Err("A data writer thread panicked", 0, 0)
                      ELSE workers[coord_idx].err
          /\ UNCHANGED coord_idx
  /\ UNCHANGED << loader_vars, input_vars, plans, seq_vars, tables, events, worker_plans,
                  workers, shards, chan, completed_tables >>

\* coordinator: every handle is joined, the scope returns the shards
CoordJoined ==
  /\ pc = "par_join"
  /\ coord_idx > Len(workers)
  /\ events' = Append(events, ProgressMessage("Merging staged data tables"))
  /\ coord_idx' = 1
  /\ pc' = "par_merge"
  /\ UNCHANGED << loader_vars, input_vars, plans, seq_vars, tables, error, worker_plans,
                  workers, shards, chan, completed_tables >>

\* merge_staged_data_shards, one shard: ATTACH, COPY FROM DATABASE, DETACH; the
\* copy fails on a table the target already holds
CoordMergeShard ==
  /\ pc = "par_merge"
  /\ coord_idx <= Len(shards)
  /\ IF DOMAIN shards[coord_idx] \cap DOMAIN tables # {}
     THEN /\ error' = Err("CopyFailed", coord_idx, 0)
          /\ pc' = "failed"
          /\ events' = Append(events, DataMergeTableStart(coord_idx, Len(shards)))
          /\ UNCHANGED << tables, coord_idx >>
     ELSE /\ \E reversed \in BOOLEAN :
               tables' = CopyFromDatabase(tables, shards[coord_idx], reversed)
          /\ events' = events \o << DataMergeTableStart(coord_idx, Len(shards)),
                                    DataMergeTableEnd(coord_idx, Len(shards)) >>
          /\ coord_idx' = coord_idx + 1
          /\ UNCHANGED << error, pc >>
  /\ UNCHANGED << loader_vars, input_vars, plans, seq_vars, worker_plans, workers, shards,
                  chan, completed_tables >>

\* merge_staged_data_shards returned Ok
CoordMergeFinish ==
  /\ pc = "par_merge"
  /\ coord_idx > Len(shards)
  /\ pc' = "ok"
  /\ UNCHANGED << loader_vars, input_vars, plans, seq_vars, tables, error, events,
                  par_vars >>

\* the largest number of doubles of a key of the parallel runs
ParLen == 3

\* three keys of up to three properties, so one, two or three tables, whose
\* sizes differ; the position of key 9 may be off the 8-byte boundary
ParCats ==
  { [ BaseCat EXCEPT
        !.property = (3 :> Property(StrP, StrQ, TRUE)) @@ (4 :> Property(StrQ, StrP, TRUE))
                     @@ (5 :> Property(StrA, StrA, FALSE)),
        !.key = (7 :> Key(4, FALSE, 1, 10, 3)) @@ (8 :> Key(4, FALSE, 2, 10, q8))
                @@ (9 :> Key(4, FALSE, 1, 10, q9)),
        !.key_index = (7 :> KeyIndex(0, 0, l7, 0)) @@ (8 :> KeyIndex(0, 8, l8, 5))
                      @@ (9 :> KeyIndex(0, p9, l9, -3)),
        !.period_data = (0 :> F64_BYTES * FileValues) ] :
      q8 \in {3, 4}, q9 \in {3, 4, 5}, l7 \in {1, ParLen}, l8 \in {0, ParLen},
      l9 \in {1, ParLen}, p9 \in {16, 3} }

\* the configured number of threads and the parallelism of the machine
ThreadConfigs ==
  { << NoneInt, 1 >>, << NoneInt, 2 >>, << SomeInt(0), 1 >>, << SomeInt(1), 1 >>,
    << SomeInt(2), 1 >>, << SomeInt(3), 1 >>, << SomeInt(5), 1 >> }

InitPar ==
  /\ \E c \in ParCats : WriterInit(c)
  /\ \E t \in ThreadConfigs : data_write_threads = t[1] /\ available = t[2]

NextPar ==
  \/ NextSeq
  \/ PopulateParallel
  \/ \E i \in 1..Len(workers) :
       \/ WorkerTableStarted(i)
       \/ WorkerAppend(i)
       \/ WorkerTableCompleted(i)
       \/ WorkerFinish(i)
  \/ CoordRecv
  \/ CoordChannelClosed
  \/ CoordLoopExit
  \/ CoordJoin
  \/ CoordJoined
  \/ CoordMergeShard
  \/ CoordMergeFinish

\* populate_table_data with any number of writer threads
SpecPar == InitPar /\ [][NextPar]_vars


(***************************************************************************)
(* Properties of the parallel writer                                       *)
(***************************************************************************)
\* the multiset of the members of a sequence, as the count of each member
BagOf(rows) == [r \in SeqToSet(rows) |-> Cardinality({ j \in 1..Len(rows) : rows[j] = r })]

\* the tables of the run with one writer thread: the plans written one after
\* the other, each by append_single_data_table
SequentialTables ==
  [n \in { plans[j].table_name : j \in 1..Len(plans) } |->
     append_single_data_table(cat, CHOOSE p \in SeqToSet(plans) : p.table_name = n).rows]

\* the number of writers of the run
WorkerCount == resolve_data_write_threads(Len(plans), data_write_threads, available)

\* C4: when populate_table_data succeeds, with whatever number of writers, the
\* target catalog holds exactly one data table per plan, and the rows of each
\* table are, as a multiset, the rows the run with one writer produces.
C4_ParallelEquivalence ==
  pc = "ok" =>
    /\ DOMAIN tables = DOMAIN SequentialTables
    /\ Cardinality(DOMAIN tables) = Len(plans)
    /\ \A n \in DOMAIN tables : BagOf(tables[n]) = BagOf(SequentialTables[n])

\* a run of three writers with three shards has succeeded, and a shard came
\* in another order than the sequential run writes
C4_Witness ==
  /\ pc = "ok"
  /\ WorkerCount = 3
  /\ Len(shards) = 3
  /\ DOMAIN tables = DOMAIN SequentialTables
  /\ \E n \in DOMAIN tables : Len(tables[n]) = ParLen /\ tables[n] # SequentialTables[n]


(***************************************************************************)
(* Properties of the memberships of the loaded catalog                     *)
(***************************************************************************)
MembersOf(c) == { m \in DOMAIN cat.membership : cat.membership[m].collection_id = c }

\* C11: after a successful load, for every collection c, c.n_members is the
\* number of memberships whose collection_id is c, and the collection_idx
\* values of those memberships are exactly 0 .. c.n_members - 1, each once.
C11_MembershipCount ==
  load_pc \in {"counted", "loaded"} =>
    \A c \in DOMAIN cat.collection :
      /\ cat.collection[c].n_members = Cardinality(MembersOf(c))
      /\ { cat.membership[m].collection_idx : m \in MembersOf(c) }
           = 0..(cat.collection[c].n_members - 1)
      /\ \A m1 \in MembersOf(c), m2 \in MembersOf(c) :
           cat.membership[m1].collection_idx = cat.membership[m2].collection_idx => m1 = m2

\* a loaded catalog with a collection of three memberships, whose ids are
\* not adjacent, and a collection of none
C11_Witness ==
  /\ IsLoaded
  /\ \E c \in DOMAIN cat.collection :
       /\ cat.collection[c].n_members = 3
       /\ \E m \in MembersOf(c) : m + 1 \in DOMAIN cat.membership /\ m + 1 \notin MembersOf(c)
  /\ \E c \in DOMAIN cat.collection : MembersOf(c) = {} /\ cat.collection[c].n_members = 0


\* C12 as stated: after a successful load the membership_id, property_id,
\* sample_id and timeslice_id of every key resolve, whether or not the key has
\* a KeyIndex, and the key_id of every KeyIndex resolves; a catalog in which
\* one of them does not resolve is not loaded.
C12_Original ==
  IsLoaded =>
    /\ \A k \in DOMAIN cat.key :
         /\ cat.key[k].membership_id \in DOMAIN cat.membership
         /\ cat.key[k].property_id \in DOMAIN cat.property
         /\ cat.key[k].sample_id \in DOMAIN cat.sample
         /\ cat.key[k].timeslice_id \in DOMAIN cat.timeslice
    /\ \A k \in DOMAIN cat.key_index : k \in DOMAIN cat.key


(***************************************************************************)
(* The load followed by the sequential writer                              *)
(***************************************************************************)
\* parsed catalogs whose KeyIndex positions are on and off the 8-byte
\* boundary: key 7, or keys 7 and 9 in one table or in two
AlignCats ==
  { [ BaseCat EXCEPT !.key_index = (7 :> KeyIndex(0, p7, l7, 0)),
                     !.period_data = (0 :> F64_BYTES * FileValues) ] :
      p7 \in {0, 3, 8, 12}, l7 \in {0, 2} }
  \cup
  { [ BaseCat EXCEPT !.key_index = (7 :> KeyIndex(0, p7, l7, 0)) @@ (9 :> KeyIndex(0, p9, l9, 5)),
                     !.key[9].is_summary = s9,
                     !.period_data = (0 :> F64_BYTES * FileValues) ] :
      p7 \in {0, 3, 8, 12}, l7 \in {0, 2}, p9 \in {0, 5, 16}, l9 \in {0, 2}, s9 \in BOOLEAN }

InitRun ==
  /\ cat \in AlignCats \cup DanglingCats
  /\ load_pc = "parsed"
  /\ mapping = <<>>
  /\ WriterIdle

NextRun ==
  \/ NextLoad
  \/ NextSeq

\* with_xml_string followed by populate_table_data with one writer thread
SpecRun == InitRun /\ [][NextRun]_vars

\* C13 as stated: after a successful load every KeyIndex.position is a
\* multiple of 8 (a catalog with another position is not loaded).
C13_Original ==
  IsLoaded => \A k \in IndexedKeys : cat.key_index[k].position % 8 = 0

\* C13: the load does not look at KeyIndex.position: it fails only for a
\* reference that does not resolve, and a catalog with a position off the
\* 8-byte boundary is loaded as it is. The violation is fatal in the writer:
\* the write of the tables never succeeds when a KeyIndex is off the boundary,
\* and no table ever holds a row of such a key.
C13_AlignmentAtWrite ==
  /\ load_pc = "failed" =>
       \E k \in IndexedKeys :
         \/ k \notin DOMAIN cat.key
         \/ cat.key[k].membership_id \notin DOMAIN cat.membership
         \/ cat.key[k].property_id \notin DOMAIN cat.property
  /\ pc = "ok" => \A k \in IndexedKeys : ~OffBoundary(cat.key_index[k].position)
  /\ \A n \in DOMAIN tables : \A j \in 1..Len(tables[n]) :
       ~OffBoundary(cat.key_index[tables[n][j].key_id].position)

\* a catalog with a position off the boundary is loaded, a table of another
\* key is written, and the write then fails at the key off the boundary
C13_Witness ==
  /\ IsLoaded
  /\ pc = "failed"
  /\ error.kind = "Misaligned"
  /\ OffBoundary(cat.key_index[error.key_id].position)
  /\ cat.key_index[error.key_id].position % 4 = 0
  /\ \E n \in DOMAIN tables : tables[n] # <<>>


(***************************************************************************)
(* The parallel writer with worker threads that may panic                  *)
(***************************************************************************)
\* two or three tables of fixed sizes (one table when all keys share a
\* property), two or three writer threads configured
InitPanic ==
  /\ \E c \in ParCats :
       /\ c.key_index[7].length = 1
       /\ c.key_index[8].length = ParLen
       /\ c.key_index[9].length = 1
       /\ WriterInit(c)
  /\ data_write_threads \in {SomeInt(2), SomeInt(3)}
  /\ available = 1

NextPanic ==
  \/ NextPar
  \/ \E i \in 1..Len(workers) : WorkerPanic(i)

\* populate_table_data where a worker thread may panic while it writes a table
SpecPanic == InitPanic /\ [][NextPanic]_vars

(***************************************************************************)
(* Properties of failures of the parallel writer                           *)
(***************************************************************************)
FailedWorkers == { i \in 1..Len(workers) : workers[i].pc = "failed" }
PanickedWorkers == { i \in 1..Len(workers) : workers[i].pc = "panicked" }
MergeEvents ==
  { j \in 1..Len(events) : events[j].event \in {"DataMergeTableStart", "DataMergeTableEnd"} }

\* C14: in a parallel run the merge starts only after every worker has
\* finished all its tables and has been joined with success; once a worker
\* has failed to write a table the run never succeeds (it ends with an error)
\* and no shard is ever attached to or copied into the target catalog.
C14_MergeOnlyAfterJoin ==
  /\ FailedWorkers # {} =>
       /\ pc \in {"par_recv", "failed"}
       /\ tables = <<>>
       /\ MergeEvents = {}
  /\ (pc \in {"par_merge", "ok"} /\ workers # <<>>) =>
       \A i \in 1..Len(workers) :
         workers[i].pc = "done" /\ workers[i].idx = Len(worker_plans[i]) + 1
  /\ (tables # <<>> /\ workers # <<>>) => pc \in {"par_merge", "ok"}

\* a worker has failed after another worker has staged a table with rows; the
\* run has ended with an error and the target holds no table
C14_Witness ==
  /\ pc = "failed"
  /\ FailedWorkers # {}
  /\ \E i \in 1..Len(workers) :
       workers[i].pc = "done" /\ \E n \in DOMAIN shards[i] : shards[i][n] # <<>>
  /\ tables = <<>>

\* C15 as stated: when a worker has failed, the error the parallel writer
\* returns is that worker's own error (with its key_id and offset), and the
\* channel-closed error is returned only when no worker has failed.
C15_Original ==
  (pc = "failed" /\ workers # <<>>) =>
    /\ FailedWorkers # {} => \E i \in FailedWorkers : error = workers[i].err
    /\ error.kind = "ChannelClosed" => FailedWorkers = {}

\* C16 as stated: when a worker thread has panicked while it wrote a table,
\* the parallel writer ends by returning the error "A data writer thread
\* panicked" (it does not panic itself and returns no other error).
C16_Original ==
  (PanickedWorkers # {} /\ pc \in {"ok", "failed", "panicked"}) =>
    /\ pc = "failed"
    /\ error.kind = "A data writer thread panicked"


(***************************************************************************)
(* Properties of the progress events                                       *)
(***************************************************************************)
WorkerEventNames == {"DataWorkerTableStart", "DataWorkerTableEnd"}
\* the worker events of worker_id, in the order the coordinator reported them
WorkerEventsOf(worker_id) ==
  SelectSeq(events, LAMBDA e : e.event \in WorkerEventNames /\ e.worker_id = worker_id)

\* C17: under every interleaving, the DataWorkerTableStart and
\* DataWorkerTableEnd events of one worker alternate, beginning with a Start;
\* each End carries the index of the Start before it; the indexes are 1, 2, ...
\* and never exceed the worker's total, which is the number of its plans.
C17_WorkerEventsAlternate ==
  \A i \in 1..Len(workers) :
    LET es == WorkerEventsOf(i - 1) IN
    \A j \in 1..Len(es) :
      /\ es[j].event = IF j % 2 = 1 THEN "DataWorkerTableStart" ELSE "DataWorkerTableEnd"
      /\ es[j].index = (j + 1) \div 2
      /\ es[j].total = Len(worker_plans[i])
      /\ es[j].index <= es[j].total

\* the first worker has reported two tables, and the events of another
\* worker came between the Start and the End of its first table
C17_Witness ==
  /\ Len(WorkerEventsOf(0)) = 4
  /\ \E a \in 1..Len(events), b \in 1..Len(events), c \in 1..Len(events) :
       /\ a < b /\ b < c
       /\ events[a].event = "DataWorkerTableStart" /\ events[a].worker_id = 0
       /\ events[a].index = 1
       /\ events[b].event \in WorkerEventNames /\ events[b].worker_id = 1
       /\ events[c].event = "DataWorkerTableEnd" /\ events[c].worker_id = 0
       /\ events[c].index = 1


MergeEventNames == {"DataMergeTableStart", "DataMergeTableEnd"}
MergeEventsSeq == SelectSeq(events, LAMBDA e : e.event \in MergeEventNames)

\* C18: a run with one writer reports only DataTableStart and DataTableEnd
\* events; in a parallel run every DataWorkerTableStart / DataWorkerTableEnd
\* event comes before the first DataMergeTableStart, and the merge events come
\* in pairs Start, End with the indexes 1 .. total, one pair at a time.
C18_EventPhases ==
  /\ workers = <<>> =>
       \A j \in 1..Len(events) : events[j].event \in {"DataTableStart", "DataTableEnd"}
  /\ \A a \in 1..Len(events), b \in 1..Len(events) :
       (events[a].event \in MergeEventNames /\ events[b].event \in WorkerEventNames) => b < a
  /\ \A j \in 1..Len(MergeEventsSeq) :
       /\ MergeEventsSeq[j].event =
            IF j % 2 = 1 THEN "DataMergeTableStart" ELSE "DataMergeTableEnd"
       /\ MergeEventsSeq[j].index = (j + 1) \div 2
       /\ MergeEventsSeq[j].total = Len(shards)
       /\ MergeEventsSeq[j].index <= Len(shards)
  /\ pc = "ok" /\ workers # <<>> => Len(MergeEventsSeq) = 2 * Len(shards)

\* a parallel run of three workers has ended after three merge pairs, the
\* last worker event being reported before the first merge event
C18_Witness ==
  /\ pc = "ok"
  /\ Len(shards) = 3
  /\ Len(MergeEventsSeq) = 6
  /\ \E a \in 1..Len(events) :
       /\ events[a].event = "DataMergeTableStart"
       /\ events[a].index = 1
       /\ Cardinality({ b \in 1..(a - 1) : events[b].event \in WorkerEventNames }) = 6


(***************************************************************************)
(* with_zip_file_impl: the choice of the XML entry of a ZIP archive        *)
(***************************************************************************)
\* str::to_lowercase on ASCII text: "A".."Z" become "a".."z", the rest stays
to_lowercase(s) ==
  [j \in 1..Len(s) |->
     IF s[j] \in SeqToSet(Upper) THEN Lower[IndexIn(s[j], Upper)] ELSE s[j]]

\* str::ends_with
ends_with(s, suffix) ==
  Len(s) >= Len(suffix) /\ SubSeq(s, Len(s) - Len(suffix) + 1, Len(s)) = suffix

\* str::starts_with
starts_with(s, prefix) == Len(s) >= Len(prefix) /\ SubSeq(s, 1, Len(prefix)) = prefix

\* str::contains: the empty pattern is found in every string
str_contains(s, pattern) ==
  \E k \in 0..(Len(s) - Len(pattern)) : SubSeq(s, k + 1, k + Len(pattern)) = pattern

RECURSIVE trim_start_matches(_, _)
\* str::trim_start_matches: every repetition of the prefix is removed
trim_start_matches(s, prefix) ==
  IF prefix # <<>> /\ starts_with(s, prefix)
  THEN trim_start_matches(SubSeq(s, Len(prefix) + 1, Len(s)), prefix)
  ELSE s

RECURSIVE trim_end_matches(_, _)
\* str::trim_end_matches: every repetition of the suffix is removed
trim_end_matches(s, suffix) ==
  IF suffix # <<>> /\ ends_with(s, suffix)
  THEN trim_end_matches(SubSeq(s, 1, Len(s) - Len(suffix)), suffix)
  ELSE s

\* Path::file_name of a path that does not end in "/" or "..": the last component
file_name(path) ==
  LET slashes == { j \in 1..Len(path) : path[j] = "/" }
  IN IF slashes = {} THEN path
     ELSE SubSeq(path, (CHOOSE j \in slashes : \A k \in slashes : k <= j) + 1, Len(path))

\* Path::file_stem: the file name up to its last ".", the whole file name when it
\* has no "." or only a leading one
file_stem(path) ==
  LET name == file_name(path)
      dots == { j \in 1..Len(name) : name[j] = "." }
      last == CHOOSE j \in dots : \A k \in dots : k <= j
  IN IF dots = {} THEN name
     ELSE IF last = 1 THEN name
     ELSE SubSeq(name, 1, last - 1)

ModelPrefix == << "M", "o", "d", "e", "l", " " >>
SolutionSuffix == << " ", "S", "o", "l", "u", "t", "i", "o", "n", ".", "z", "i", "p" >>
XmlExtension == << ".", "x", "m", "l" >>

\* the model name the entries are compared with: the configured one, or the one
\* inferred from the archive's file name, in lower case
zip_model_name(self_model_name, path) ==
  IF self_model_name # <<>>
  THEN to_lowercase(self_model_name)
  ELSE to_lowercase(trim_end_matches(trim_start_matches(file_name(path), ModelPrefix),
                                     SolutionSuffix))

WarnModelName == "using XML file containing model name instead"
WarnFirstXml == "using first XML file instead"
ErrNoXml == "No XML file found in the zip archive"

\* a faulty variant: the first XML entry is taken before the model name is looked at
xml_index_to_use_FirstXml(preferred_xml_index, model_name_xml_index, first_xml_index) ==
  IF preferred_xml_index.some
  THEN [idx |-> preferred_xml_index, warnings |-> <<>>, error |-> "none"]
  ELSE IF first_xml_index.some
  THEN [idx |-> first_xml_index, warnings |-> <<WarnFirstXml>>, error |-> "none"]
  ELSE IF model_name_xml_index.some
  THEN [idx |-> model_name_xml_index, warnings |-> <<WarnModelName>>, error |-> "none"]
  ELSE [idx |-> NoneInt, warnings |-> <<>>, error |-> ErrNoXml]

\* let xml_index_to_use = ...: the entry read, the warning printed, or the error
xml_index_to_use(preferred_xml_index, model_name_xml_index, first_xml_index) ==
  IF preferred_xml_index.some
  THEN [idx |-> preferred_xml_index, warnings |-> <<>>, error |-> "none"]
  ELSE IF model_name_xml_index.some
  THEN [idx |-> model_name_xml_index, warnings |-> <<WarnModelName>>, error |-> "none"]
  ELSE IF first_xml_index.some
  THEN [idx |-> first_xml_index, warnings |-> <<WarnFirstXml>>, error |-> "none"]
  ELSE [idx |-> NoneInt, warnings |-> <<>>, error |-> ErrNoXml]

MaxEntries == 3

\* entry names: exact and inexact stems, upper-case extensions, a directory, no XML
EntryNames ==
  { << "F", "o", "o", ".", "x", "m", "l" >>,
    << "f", "o", "o", ".", "x", "m", "l" >>,
    << "b", "a", "r", ".", "x", "m", "l" >>,
    << "B", "A", "R", ".", "X", "M", "L" >>,
    << "d", "/", "F", "o", "o", ".", "x", "m", "l" >>,
    << "t", "_", "d", "a", "t", "a", "_", "0", ".", "B", "I", "N" >> }

ArchivePaths ==
  { << "F", "o", "o", ".", "z", "i", "p" >>,
    << "o", "u", "t", "/", "M", "o", "d", "e", "l", " ", "B", "a", " ",
       "S", "o", "l", "u", "t", "i", "o", "n", ".", "z", "i", "p" >> }

ModelNames == { <<>>, << "B", "a" >> }

\* File::open, file_stem, ZipArchive::new and the model name, up to the loop
ZipOpen ==
  /\ zip.pc = "idle"
  /\ \E path \in ArchivePaths, self_model_name \in ModelNames,
        entries \in UNION { [1..n -> EntryNames] : n \in 0..MaxEntries } :
       zip' = [ZipIdle EXCEPT !.pc = IF Len(entries) = 0 THEN "select" ELSE "scan",
                              !.path = path,
                              !.self_model_name = self_model_name,
                              !.entries = entries,
                              !.zip_stem = file_stem(path),
                              !.model_name = zip_model_name(self_model_name, path)]
  /\ UNCHANGED << loader_vars, data_write_threads, available, xml, cli, duck, planner, pc, plans,
                  seq_vars,
                  tables, error, events, par_vars >>

\* one turn of the loop over the entries (zip.i is the 0-based index of the entry)
ZipScanEntry ==
  /\ zip.pc = "scan"
  /\ zip.i < Len(zip.entries)
  /\ LET entry_name == zip.entries[zip.i + 1]
         is_xml == ends_with(to_lowercase(entry_name), XmlExtension)
         stem == file_stem(entry_name)
         break == is_xml /\ stem = zip.zip_stem
         by_model_name == is_xml /\ str_contains(to_lowercase(stem), zip.model_name)
     IN zip' =
          IF break
          THEN [zip EXCEPT !.preferred_xml_index = SomeInt(zip.i), !.pc = "select"]
          ELSE [zip EXCEPT
                  !.model_name_xml_index =
                     IF by_model_name /\ ~zip.model_name_xml_index.some
                     THEN SomeInt(zip.i) ELSE @,
                  !.first_xml_index =
                     IF is_xml /\ ~zip.first_xml_index.some THEN SomeInt(zip.i) ELSE @,
                  !.i = zip.i + 1,
                  !.pc = IF zip.i + 1 = Len(zip.entries) THEN "select" ELSE "scan"]
  /\ UNCHANGED << loader_vars, data_write_threads, available, xml, cli, duck, planner, pc, plans,
                  seq_vars,
                  tables, error, events, par_vars >>

\* the choice after the loop; the XML of the chosen entry is read next
ZipSelect ==
  /\ zip.pc = "select"
  /\ LET r == xml_index_to_use(zip.preferred_xml_index, zip.model_name_xml_index,
                               zip.first_xml_index)
     IN zip' = [zip EXCEPT !.xml_index_to_use = r.idx,
                           !.warnings = r.warnings,
                           !.error = r.error,
                           !.pc = IF r.error = "none" THEN "selected" ELSE "failed"]
  /\ UNCHANGED << loader_vars, data_write_threads, available, xml, cli, duck, planner, pc, plans,
                  seq_vars,
                  tables, error, events, par_vars >>

\* no archive is open yet; the catalog is the one its XML entry will yield
InitZip ==
  /\ cat = BaseCat
  /\ load_pc = "unread"
  /\ mapping = <<>>
  /\ WriterIdle

NextZip ==
  \/ ZipOpen
  \/ ZipScanEntry
  \/ ZipSelect

\* with_zip_file_impl up to the choice of the XML entry
SpecZip == InitZip /\ [][NextZip]_vars

SetMin(S) == CHOOSE m \in S : \A x \in S : m <= x

\* the positions (from 1) of the entries whose name ends in ".xml", in any case
XmlEntries ==
  { j \in 1..Len(zip.entries) : ends_with(to_lowercase(zip.entries[j]), XmlExtension) }

ExactEntries == { j \in XmlEntries : file_stem(zip.entries[j]) = zip.zip_stem }

NamedEntries ==
  { j \in XmlEntries :
      str_contains(to_lowercase(file_stem(zip.entries[j])), zip.model_name) }

\* C19: for every order of the entries, the entry chosen is an XML entry whose stem
\* equals the archive's stem when there is one, without a warning; otherwise the first
\* XML entry whose lower-cased stem contains the lower-cased model name, with a
\* warning; otherwise the first XML entry, with a warning; without any XML entry the
\* call fails with an error.
C19_XmlSelection ==
  zip.pc \in {"selected", "failed"} =>
    IF ExactEntries # {}
    THEN /\ zip.pc = "selected"
         /\ zip.xml_index_to_use.val + 1 \in ExactEntries
         /\ zip.warnings = <<>>
    ELSE IF NamedEntries # {}
    THEN /\ zip.pc = "selected"
         /\ zip.xml_index_to_use.val + 1 = SetMin(NamedEntries)
         /\ Len(zip.warnings) = 1
    ELSE IF XmlEntries # {}
    THEN /\ zip.pc = "selected"
         /\ zip.xml_index_to_use.val + 1 = SetMin(XmlEntries)
         /\ Len(zip.warnings) = 1
    ELSE /\ zip.pc = "failed"
         /\ zip.error = ErrNoXml

\* an archive of three entries without an exact stem, where the entry matching the
\* model name comes after another XML entry
C19_Witness ==
  /\ zip.pc = "selected"
  /\ Len(zip.entries) = MaxEntries
  /\ ExactEntries = {}
  /\ NamedEntries # {}
  /\ SetMin(NamedEntries) > SetMin(XmlEntries)
  /\ zip.warnings = <<WarnModelName>>


(***************************************************************************)
(* to_duckdb_impl: the steps of one run of the builder                     *)
(***************************************************************************)
total_steps == 28

\* the labels of the steps, in the order of the calls of with_duckdb_step
StepLabels ==
  << "Initializing DuckDB", "Configuring DuckDB session", "Creating raw schema",
     "Writing metadata", "Writing config", "Writing memberships", "Writing collections",
     "Writing classes", "Writing class groups", "Writing categories", "Writing bands",
     "Writing models", "Writing objects", "Writing keys", "Writing key indexes",
     "Writing properties", "Writing timeslices", "Writing samples", "Writing units",
     "Writing memo objects", "Writing custom columns", "Writing attribute data",
     "Writing attributes", "Writing timestamp blocks", "Writing time series data",
     "Creating processed views", "Creating report views", "Persisting DuckDB database" >>

DbWriteModes == { "InMemoryThenCopy", "Direct" }

\* the statements of the batch that persists an in-memory database
PersistStatements == << "ATTACH", "COPY FROM DATABASE", "DETACH" >>

\* ProgressEvent::DataTableStart of a step: the label is the table name, keys is 0
StepStart(index, label) ==
  [event |-> "DataTableStart", worker_id |-> 0, index |-> index, total |-> total_steps,
   table_name |-> label, keys |-> 0]

\* a faulty variant: the error of the step is dropped and the run goes on
with_duckdb_step_Ignore(d, label, ok) ==
  [d EXCEPT !.step_index = @ + 1,
            !.ran = Append(@, label),
            !.results = Append(@, ok),
            !.pc = "running"]

\* with_duckdb_step followed by `?`: the index grows, the step runs, its error ends the run
with_duckdb_step(d, label, ok) ==
  [d EXCEPT !.step_index = @ + 1,
            !.ran = Append(@, label),
            !.results = Append(@, ok),
            !.pc = IF ok THEN "running" ELSE "failed",
            !.error = IF ok THEN @ ELSE label]

\* what a step reports: the message, the start of the step, its end
StepEvents(index, label) ==
  << ProgressMessage(label), StepStart(index, label), DataTableEnd >>

\* statements that succeed on a connection to the destination file change that file
WrittenBy(d, label, ok) ==
  IF ok /\ d.con = "file" THEN Append(d.destination, label) ELSE d.destination

\* step 1: the connection is opened, in memory or on the destination file
DuckInitialize ==
  /\ duck.pc = "idle"
  /\ load_pc = "loaded"
  /\ pc = "idle"
  /\ \E mode \in DbWriteModes, ok \in BOOLEAN :
       duck' = [with_duckdb_step(duck, StepLabels[1], ok) EXCEPT
                  !.mode = mode,
                  !.con = IF ~ok THEN "none"
                          ELSE IF mode = "Direct" THEN "file" ELSE "memory",
                  !.destination = IF ok /\ mode = "Direct" THEN <<"open">> ELSE <<>>]
  /\ events' = events \o StepEvents(1, StepLabels[1])
  /\ UNCHANGED << loader_vars, data_write_threads, available, xml, cli, zip, planner, pc, plans,
                  seq_vars,
                  tables, error, par_vars >>

\* a step whose closure is one call on the connection
DuckStep(index) ==
  /\ duck.pc = "running"
  /\ duck.step_index + 1 = index
  /\ \E ok \in BOOLEAN :
       duck' = [with_duckdb_step(duck, StepLabels[index], ok) EXCEPT
                  !.destination = WrittenBy(duck, StepLabels[index], ok)]
  /\ events' = events \o StepEvents(index, StepLabels[index])
  /\ UNCHANGED << loader_vars, data_write_threads, available, xml, cli, zip, planner, pc, plans,
                  seq_vars,
                  tables, error, par_vars >>

\* step 2: SET preserve_insertion_order, and the checkpoint pragma in Direct mode
DuckConfigure == DuckStep(2)

\* step 3: CREATE SCHEMA IF NOT EXISTS raw
DuckCreateRawSchema == DuckStep(3)

\* steps 4 to 24: populate_table_metadata ... populate_table_timestamps_block
DuckPopulateTable == \E index \in 4..24 : DuckStep(index)

\* step 25 up to the call of populate_table_data
DuckDataBegin ==
  /\ duck.pc = "running"
  /\ duck.step_index + 1 = 25
  /\ duck' = [duck EXCEPT !.step_index = @ + 1,
                          !.ran = Append(@, StepLabels[25]),
                          !.pc = "data"]
  /\ events' = events \o << ProgressMessage(StepLabels[25]), StepStart(25, StepLabels[25]) >>
  /\ UNCHANGED << loader_vars, data_write_threads, available, xml, cli, zip, planner, pc, plans,
                  seq_vars,
                  tables, error, par_vars >>

\* populate_table_data, called by step 25
DuckData ==
  /\ duck.pc = "data"
  /\ NextSeq

\* step 25 from the return of populate_table_data
DuckDataEnd ==
  /\ duck.pc = "data"
  /\ pc \in {"ok", "failed"}
  /\ duck' = [duck EXCEPT !.results = Append(@, pc = "ok"),
                          !.pc = IF pc = "ok" THEN "running" ELSE "failed",
                          !.error = IF pc = "ok" THEN @ ELSE StepLabels[25],
                          !.destination = WrittenBy(duck, StepLabels[25], pc = "ok")]
  /\ events' = Append(events, DataTableEnd)
  /\ UNCHANGED << loader_vars, data_write_threads, available, xml, cli, zip, planner, pc, plans,
                  seq_vars,
                  tables, error, par_vars >>

\* step 26: create_processed_views
DuckCreateProcessedViews == DuckStep(26)

\* step 27: create_report_views
DuckCreateReportViews == DuckStep(27)

\* step 28: the batch ATTACH; COPY FROM DATABASE; DETACH stops at its first failing
\* statement (done statements are complete); in Direct mode the batch is CHECKPOINT
DuckPersist ==
  /\ duck.pc = "running"
  /\ duck.step_index + 1 = total_steps
  /\ \E done \in 0..Len(PersistStatements), checkpoint \in BOOLEAN :
       LET ok == IF duck.mode = "InMemoryThenCopy" THEN done = Len(PersistStatements)
                 ELSE checkpoint
           step == with_duckdb_step(duck, StepLabels[total_steps], ok)
       IN duck' = [step EXCEPT
                     !.pc = IF ok THEN "ok" ELSE "failed",
                     !.destination =
                        IF duck.mode = "InMemoryThenCopy"
                        THEN @ \o SubSeq(PersistStatements, 1, done)
                        ELSE IF ok THEN Append(@, "CHECKPOINT") ELSE @]
  /\ events' = events \o StepEvents(total_steps, StepLabels[total_steps])
  /\ UNCHANGED << loader_vars, data_write_threads, available, xml, cli, zip, planner, pc, plans,
                  seq_vars,
                  tables, error, par_vars >>

\* a loaded catalog, one writer thread, the builder not yet run
InitDuck ==
  /\ data_write_threads = SomeInt(1)
  /\ available = 1
  /\ \E c \in AlignCats : WriterInit(c)

NextDuck ==
  \/ DuckInitialize
  \/ DuckConfigure
  \/ DuckCreateRawSchema
  \/ DuckPopulateTable
  \/ DuckDataBegin
  \/ DuckData
  \/ DuckDataEnd
  \/ DuckCreateProcessedViews
  \/ DuckCreateReportViews
  \/ DuckPersist

\* DuckdbBuilder::run with one data writer thread
SpecDuck == InitDuck /\ [][NextDuck]_vars

\* the stage a step belongs to
StageOf(index) ==
  IF index <= 24 THEN "schema writer"
  ELSE IF index = 25 THEN "time-series writer"
  ELSE IF index = 26 THEN "processed views"
  ELSE IF index = 27 THEN "report views"
  ELSE "finalizer"

\* the steps run so far are the first steps in order, and each one but the last succeeded
StepsInOrder ==
  /\ duck.ran = SubSeq(StepLabels, 1, Len(duck.ran))
  /\ duck.step_index = Len(duck.ran)
  /\ \A j \in 1..Len(duck.results) : j < Len(duck.ran) => duck.results[j]
  /\ \A j \in 1..Len(duck.ran) :
       \A k \in 1..(j - 1) : StageOf(k) # StageOf(j) => k <= Len(duck.results) /\ duck.results[k]

\* the writer of the time series acts only inside step 25
DataInsideItsStep ==
  (pc # "idle" \/ tables # <<>>) => Len(duck.ran) >= 25

\* a finalizer statement touches the destination only after 27 successful steps
FinalizerLast ==
  (\E j \in 1..Len(duck.destination) :
      duck.destination[j] \in SeqToSet(PersistStatements) \cup {"CHECKPOINT"})
    => /\ Len(duck.ran) = total_steps
       /\ \A k \in 1..(total_steps - 1) : duck.results[k]

\* C20 as stated: the stages run in order, each after the success of the earlier ones,
\* the finalizer never follows a failed stage, and a failed run in InMemoryThenCopy
\* mode never writes the destination file.
C20_Original ==
  /\ StepsInOrder
  /\ DataInsideItsStep
  /\ FinalizerLast
  /\ (duck.mode = "InMemoryThenCopy" /\ duck.pc = "failed") => duck.destination = <<>>

\* C20, amended: the stages run in order, each after the success of the earlier ones,
\* the finalizer never follows a failed stage, and in InMemoryThenCopy mode a run that
\* fails in a stage before the finalizer never writes the destination file.
C20_StagesInOrder ==
  /\ StepsInOrder
  /\ DataInsideItsStep
  /\ FinalizerLast
  /\ (duck.mode = "InMemoryThenCopy" /\ duck.pc = "failed" /\ Len(duck.ran) < total_steps)
       => duck.destination = <<>>

\* a run in InMemoryThenCopy mode that the writer of the time series made fail
C20_Witness ==
  /\ duck.mode = "InMemoryThenCopy"
  /\ duck.pc = "failed"
  /\ Len(duck.ran) = 25
  /\ pc = "failed"
  /\ error # NoErr
  /\ duck.destination = <<>>


(***************************************************************************)
(* The planner: build_data_table_plans and distribute_data_table_plans     *)
(***************************************************************************)
PlanLens == 2
PlanThreads == 3

\* four keys in one to three tables, with equal and unequal lengths
PlanCats ==
  { [ BaseCat EXCEPT
        !.property = (3 :> Property(StrP, StrQ, TRUE)) @@ (4 :> Property(StrQ, StrP, TRUE))
                     @@ (5 :> Property(StrA, StrA, FALSE)),
        !.key = (6 :> Key(4, FALSE, 1, 10, q6)) @@ (7 :> Key(4, FALSE, 1, 10, 3))
                @@ (8 :> Key(4, FALSE, 2, 10, q8)) @@ (9 :> Key(4, FALSE, 1, 10, q9)),
        !.key_index = (6 :> KeyIndex(0, 0, l6, 0)) @@ (7 :> KeyIndex(0, 8, l7, 0))
                      @@ (8 :> KeyIndex(0, 16, l8, 0)) @@ (9 :> KeyIndex(0, 24, l9, 0)),
        !.period_data = (0 :> F64_BYTES * FileValues) ] :
      q6 \in {4, 5}, q8 \in {3, 4}, q9 \in {3, 4, 5},
      l6 \in 0..PlanLens, l7 \in 0..PlanLens, l8 \in 0..PlanLens, l9 \in 0..PlanLens }

\* build_data_table_plans, the map iterated in any order
PlanBuild ==
  /\ planner.pc = "idle"
  /\ load_pc = "loaded"
  /\ pc = "idle"
  /\ \E order \in IterationOrders(DOMAIN mapping) :
       LET b == build_data_table_plans(cat, mapping, order)
       IN /\ plans' = b.plans
          /\ planner' = [planner EXCEPT !.pc = IF b.ok THEN "planned" ELSE "failed"]
  /\ UNCHANGED << loader_vars, data_write_threads, available, xml, cli, zip, duck, pc, seq_vars,
                  tables, error, events, worker_plans, workers, shards, chan,
                  completed_tables, coord_idx >>

\* resolve_data_write_threads, then distribute_data_table_plans up to its loop
PlanDistributeStart ==
  /\ planner.pc = "planned"
  /\ Len(plans) # 0
  /\ LET worker_count == resolve_data_write_threads(Len(plans), data_write_threads,
                                                    available)
     IN /\ planner' = [planner EXCEPT !.pc = "distributing",
                                      !.worker_count = worker_count,
                                      !.next = 1,
                                      !.worker_loads = [i \in 1..worker_count |-> 0],
                                      !.assigned = <<>>]
        /\ worker_plans' = [i \in 1..worker_count |-> <<>>]
  /\ UNCHANGED << loader_vars, data_write_threads, available, xml, cli, zip, duck, pc, plans,
                  seq_vars, tables, error, events, workers, shards, chan,
                  completed_tables, coord_idx >>

\* one turn of the loop `for plan in plans`
PlanDistributeStep ==
  /\ planner.pc = "distributing"
  /\ planner.next <= Len(plans)
  /\ LET plan == plans[planner.next]
         worker_idx == MinLoadIdx(planner.worker_loads)
     IN /\ worker_plans' = [worker_plans EXCEPT ![worker_idx] = Append(@, plan)]
        /\ planner' =
             [planner EXCEPT
                !.next = @ + 1,
                !.worker_loads[worker_idx] = saturating_add_u128(@, plan.estimated_values),
                !.assigned = Append(@, [table_name |-> plan.table_name,
                                        worker_idx |-> worker_idx,
                                        worker_loads |-> planner.worker_loads])]
  /\ UNCHANGED << loader_vars, data_write_threads, available, xml, cli, zip, duck, pc, plans,
                  seq_vars, tables, error, events, workers, shards, chan,
                  completed_tables, coord_idx >>

\* a faulty variant: the workers without a plan are kept
PlanDistributeRetain_Keep ==
  /\ planner.pc = "distributing"
  /\ planner.next > Len(plans)
  /\ planner' = [planner EXCEPT !.pc = "distributed"]
  /\ UNCHANGED << loader_vars, data_write_threads, available, xml, cli, zip, duck, pc, plans,
                  seq_vars, tables, error, events, worker_plans, workers, shards, chan,
                  completed_tables, coord_idx >>

\* worker_plans.retain(|p| !p.is_empty()), and the return
PlanDistributeRetain ==
  /\ planner.pc = "distributing"
  /\ planner.next > Len(plans)
  /\ worker_plans' = SelectSeq(worker_plans, LAMBDA p : p # <<>>)
  /\ planner' = [planner EXCEPT !.pc = "distributed"]
  /\ UNCHANGED << loader_vars, data_write_threads, available, xml, cli, zip, duck, pc, plans,
                  seq_vars, tables, error, events, workers, shards, chan,
                  completed_tables, coord_idx >>

\* a loaded catalog and the configured number of writer threads
InitPlan ==
  /\ \E threads \in 1..PlanThreads : data_write_threads = SomeInt(threads)
  /\ available = 1
  /\ \E c \in PlanCats : WriterInit(c)

NextPlan ==
  \/ PlanBuild
  \/ PlanDistributeStart
  \/ PlanDistributeStep
  \/ PlanDistributeRetain

\* the planning of populate_table_data
SpecPlan == InitPlan /\ [][NextPlan]_vars

\* the sum of the lengths of the keys of a table
LengthSum(key_ids) == SumSeq([j \in 1..Len(key_ids) |-> cat.key_index[key_ids[j]].length])

\* plan a comes before plan b in the order the claim states
StatedOrder(a, b) ==
  \/ a.estimated_values > b.estimated_values
  \/ /\ a.estimated_values = b.estimated_values
     /\ Len(a.key_ids) > Len(b.key_ids)
  \/ /\ a.estimated_values = b.estimated_values
     /\ Len(a.key_ids) = Len(b.key_ids)
     /\ StrLess(a.table_name, b.table_name)

\* C21: build_data_table_plans returns one plan per grouping (its keys, the sum of
\* their lengths), sorted by estimate descending, then key count descending, then
\* table name ascending, and the sequence is the same for every iteration order of
\* the grouping map.
C21_PlansSorted ==
  planner.pc \in {"planned", "distributing", "distributed"} =>
    /\ Len(plans) = Cardinality(DOMAIN mapping)
    /\ \A n \in DOMAIN mapping :
         \E j \in 1..Len(plans) :
           /\ plans[j].table_name = n
           /\ plans[j].key_ids = mapping[n]
           /\ plans[j].estimated_values = LengthSum(mapping[n])
    /\ \A i, j \in 1..Len(plans) : i < j => StatedOrder(plans[i], plans[j])
    /\ plans = build_data_table_plans(cat, mapping, NameOrder(DOMAIN mapping)).plans

\* three plans, two of them equal in estimate and key count
C21_Witness ==
  /\ planner.pc = "planned"
  /\ Len(plans) = 3
  /\ \E i \in 1..2 :
       /\ plans[i].estimated_values = plans[i + 1].estimated_values
       /\ Len(plans[i].key_ids) = Len(plans[i + 1].key_ids)
  /\ \E i \in 1..2 : plans[i].estimated_values > plans[i + 1].estimated_values


\* the load of worker i when the k-th plan is assigned: the saturating sum of the
\* estimates of the earlier plans assigned to it
LoadBefore(i, k) ==
  Min(SumSeq([j \in 1..(k - 1) |->
                IF planner.assigned[j].worker_idx = i THEN plans[j].estimated_values
                ELSE 0]),
      U128_MAX)

\* the positions in plans of the plans assigned to worker i
AssignedTo(i) == { k \in 1..Len(planner.assigned) : planner.assigned[k].worker_idx = i }

\* C22: the plans are processed in the given order; each goes to a worker whose load
\* (the saturating sum of the estimates already assigned to it) is minimal at that
\* moment, the lowest-indexed one among equally loaded workers; within each worker
\* the plans keep their relative order.
C22_LeastLoadedFirst ==
  planner.pc \in {"distributing", "distributed"} =>
    /\ \A k \in 1..Len(planner.assigned) :
         LET chosen == planner.assigned[k].worker_idx
         IN /\ planner.assigned[k].table_name = plans[k].table_name
            /\ chosen \in 1..planner.worker_count
            /\ \A i \in 1..planner.worker_count : LoadBefore(chosen, k) <= LoadBefore(i, k)
            /\ \A i \in 1..(chosen - 1) : LoadBefore(i, k) > LoadBefore(chosen, k)
    /\ planner.pc = "distributed" =>
         /\ Len(planner.assigned) = Len(plans)
         /\ \A i \in 1..Len(worker_plans) :
              LET at == SortedSeq(AssignedTo(i))
              IN worker_plans[i] = [n \in 1..Len(at) |-> plans[at[n]]]
         /\ worker_plans = distribute_data_table_plans(plans, planner.worker_count)

\* three plans on two or more workers: one plan goes to a worker other than the
\* first, and one is assigned while two workers are equally and least loaded
C22_Witness ==
  /\ planner.pc = "distributed"
  /\ Len(plans) = 3
  /\ planner.worker_count >= 2
  /\ \E k \in 1..3 : planner.assigned[k].worker_idx > 1
  /\ \E k \in 2..3 :
       \E i, j \in 1..planner.worker_count :
         /\ i < j
         /\ planner.assigned[k].worker_idx = i
         /\ LoadBefore(i, k) = LoadBefore(j, k)
  /\ \E i \in 1..Len(worker_plans) : Len(worker_plans[i]) = 2

\* C28: for a non-empty plan list and 1 <= W <= #plans the result is a partition of
\* the plans: every plan is in exactly one worker list, no list is empty, and the
\* number of lists is at least 1 and at most W.
C28_Partition ==
  planner.pc = "distributed" =>
    /\ planner.worker_count \in 1..Len(plans)
    /\ Len(worker_plans) \in 1..planner.worker_count
    /\ \A i \in 1..Len(worker_plans) : worker_plans[i] # <<>>
    /\ \A k \in 1..Len(plans) :
         Cardinality({ << i, n >> \in (1..Len(worker_plans)) \X (1..Len(plans)) :
                         n <= Len(worker_plans[i]) /\ worker_plans[i][n] = plans[k] }) = 1
    /\ SumSeq([i \in 1..Len(worker_plans) |-> Len(worker_plans[i])]) = Len(plans)

\* a worker without a plan was dropped: fewer lists than W
C28_Witness ==
  /\ planner.pc = "distributed"
  /\ planner.worker_count = 3
  /\ Len(worker_plans) = 2
  /\ Len(plans) = 3


(***************************************************************************)
(* Timestamp blocks                                                        *)
(***************************************************************************)
\* the block "P__K" as stored; a block that was never pushed to has no entry
BlockOf(name, n) ==
  LET key == name \o Dunder \o Extractors[n].period_name
  IN IF key \in DOMAIN cat.timestamp_block THEN cat.timestamp_block[key] ELSE <<>>

\* the entries of phase P that have a record of the n-th kind, by ascending interval_id
ResolvedIds(name, n) ==
  SortedSeq({ i \in DOMAIN cat.phase[name] : i \in DOMAIN cat.period[Extractors[n].kind] })

\* C23: after the load, for each phase P and each of the seven period kinds K, the
\* block "P__K" is the sequence, over the entries of P in ascending interval_id order,
\* of (datetime of the kind-K record whose id is the entry's interval_id, the entry's
\* period_id); entries without such a record are left out without an error; no other
\* block exists, in whatever order the phases are visited.
C23_TimestampBlocks ==
  load_pc \in {"stamped", "counted", "loaded"} =>
    /\ \A name \in PhaseNames, n \in 1..Len(Extractors) :
         LET ids == ResolvedIds(name, n)
         IN BlockOf(name, n) =
              [j \in 1..Len(ids) |->
                 << cat.period[Extractors[n].kind][ids[j]].datetime,
                    cat.phase[name][ids[j]] >>]
    /\ DOMAIN cat.timestamp_block \subseteq
         { name \o Dunder \o Extractors[n].period_name :
             name \in PhaseNames, n \in 1..Len(Extractors) }

\* a loaded catalog with two phases that have entries, an entry without an interval
\* record, and a block of two pairs
C23_Witness ==
  /\ load_pc = "loaded"
  /\ Cardinality({ name \in PhaseNames : cat.phase[name] # <<>> }) = 2
  /\ \E i \in DOMAIN cat.phase[phase_name(1)] : i \notin DOMAIN cat.period["interval"]
  /\ Len(BlockOf(phase_name(1), 1)) = 2
  /\ Len(BlockOf(phase_name(1), 2)) = 1
  /\ Len(BlockOf(phase_name(4), 2)) = 1


(***************************************************************************)
(* The worker closure, one stage of append_single_data_table at a time     *)
(***************************************************************************)
\* staging_dir.path().join(format!("data_stage_{worker_idx}.duckdb")), worker_idx from 0
shard_path(worker_idx) ==
  << "d", "a", "t", "a", "_", "s", "t", "a", "g", "e", "_", Digits[worker_idx + 1],
     ".", "d", "u", "c", "k", "d", "b" >>

\* a faulty variant: every worker creates its tables in the first staging file
WorkerCreateTable_Shared(i) ==
  /\ workers[i].pc = "append"
  /\ LET plan == worker_plans[i][workers[i].idx]
     IN /\ shards' = [shards EXCEPT ![1] = @ @@ (plan.table_name :> <<>>)]
        /\ workers' = [workers EXCEPT ![i].pc = "completed"]
  /\ UNCHANGED << loader_vars, input_vars, pc, plans, seq_vars, tables, error, events,
                  worker_plans, chan, completed_tables, coord_idx >>

\* worker: create_data_table in its staging database; the statement may fail
WorkerCreateTable(i) ==
  /\ workers[i].pc = "append"
  /\ LET plan == worker_plans[i][workers[i].idx]
     IN \E ok \in BOOLEAN :
          /\ shards' = IF ok THEN [shards EXCEPT ![i] = @ @@ (plan.table_name :> <<>>)]
                       ELSE shards
          /\ workers' = [workers EXCEPT
                           ![i].pc = IF ok THEN "created" ELSE "failed",
                           ![i].err = IF ok THEN @ ELSE Err("CreateFailed", 0, 0)]
  /\ UNCHANGED << loader_vars, input_vars, pc, plans, seq_vars, tables, error, events,
                  worker_plans, chan, completed_tables, coord_idx >>

\* worker: the loop over the keys of the table, the rows go to the appender
WorkerAppendRows(i) ==
  /\ workers[i].pc = "created"
  /\ LET plan == worker_plans[i][workers[i].idx]
         r == append_single_data_table(cat, plan)
     IN /\ shards' = [shards EXCEPT ![i][plan.table_name] = r.rows]
        /\ workers' = [workers EXCEPT
                         ![i].pc = IF r.pc = "failed" THEN "failed" ELSE "appended",
                         ![i].err = r.err]
  /\ UNCHANGED << loader_vars, input_vars, pc, plans, seq_vars, tables, error, events,
                  worker_plans, chan, completed_tables, coord_idx >>

\* a faulty variant: a failed flush sends the worker back to the start of the table
WorkerFlush_Retry(i) ==
  /\ workers[i].pc = "appended"
  /\ \E ok \in BOOLEAN :
       workers' = [workers EXCEPT ![i].pc = IF ok THEN "completed" ELSE "append"]
  /\ UNCHANGED << loader_vars, input_vars, pc, plans, seq_vars, tables, error, events,
                  worker_plans, shards, chan, completed_tables, coord_idx >>

\* worker: appender.flush(), which may fail
WorkerFlush(i) ==
  /\ workers[i].pc = "appended"
  /\ \E ok \in BOOLEAN :
       workers' = [workers EXCEPT
                     ![i].pc = IF ok THEN "completed" ELSE "failed",
                     ![i].err = IF ok THEN @ ELSE Err("FlushFailed", 0, 0)]
  /\ UNCHANGED << loader_vars, input_vars, pc, plans, seq_vars, tables, error, events,
                  worker_plans, shards, chan, completed_tables, coord_idx >>

\* three keys in two or three tables; key 9 may be misaligned
StageCats ==
  { c \in ParCats :
      /\ c.key[8].property_id = 4
      /\ c.key[9].property_id \in {4, 5}
      /\ c.key_index[7].length = 1
      /\ c.key_index[9].length = 1 }

StageThreads == 3

InitStage ==
  /\ \E c \in StageCats : WriterInit(c)
  /\ \E threads \in 2..StageThreads : data_write_threads = SomeInt(threads)
  /\ available = 1

NextStage ==
  \/ PopulateParallel
  \/ \E i \in 1..Len(workers) :
       \/ WorkerTableStarted(i)
       \/ WorkerCreateTable(i)
       \/ WorkerAppendRows(i)
       \/ WorkerFlush(i)
       \/ WorkerTableCompleted(i)
       \/ WorkerFinish(i)
  \/ CoordRecv
  \/ CoordChannelClosed
  \/ CoordLoopExit
  \/ CoordJoin
  \/ CoordJoined
  \/ CoordMergeShard
  \/ CoordMergeFinish

\* the parallel writer with the stages of each table
SpecStage == InitStage /\ [][NextStage]_vars

\* one step of the thread of worker i outside the key loop of a table
WorkerStep(i) ==
  /\ i <= Len(workers)
  /\ \/ WorkerTableStarted(i)
     \/ WorkerCreateTable(i)
     \/ WorkerFlush(i)
     \/ WorkerTableCompleted(i)
     \/ WorkerFinish(i)

\* the key loop of worker i returns: weak fairness of WorkerAppendRows(i),
\* which is enabled exactly when the worker has created its table
WorkerRowsFair(i) ==
  \/ []<>(~(i <= Len(workers) /\ workers[i].pc = "created"))
  \/ []<><<i <= Len(workers) /\ WorkerAppendRows(i)>>_vars

\* one step of the coordinator thread after the spawn
CoordStep ==
  \/ CoordRecv
  \/ CoordChannelClosed
  \/ CoordLoopExit
  \/ CoordJoin
  \/ CoordJoined
  \/ CoordMergeShard
  \/ CoordMergeFinish

\* the state in which populate_table_data_parallel has spawned its workers:
\* two or three tables, the last key aligned or misaligned
InitStageFair ==
  /\ \E c \in StageCats :
       /\ c.key_index[8].length = 0
       /\ cat = Loaded(c)
  /\ load_pc = "loaded"
  /\ mapping = update_table_key_indexes_mapping(cat).mapping
  /\ \E threads \in 2..StageThreads : data_write_threads = SomeInt(threads)
  /\ available = 1
  /\ zip = ZipIdle
  /\ duck = DuckIdle
  /\ planner = PlannerIdle
  /\ xml = <<>>
  /\ cli = CliIdle
  /\ plans = build_data_table_plans(cat, mapping, NameOrder(DOMAIN mapping)).plans
  /\ worker_plans =
       distribute_data_table_plans(
         plans, resolve_data_write_threads(Len(plans), data_write_threads, available))
  /\ workers = [i \in 1..Len(worker_plans) |-> [pc |-> "next", idx |-> 1, err |-> NoErr]]
  /\ shards = [i \in 1..Len(worker_plans) |-> <<>>]
  /\ chan = <<>>
  /\ completed_tables = 0
  /\ pc = "par_recv"
  /\ table_idx = 0
  /\ w = AppendStart
  /\ tables = <<>>
  /\ error = NoErr
  /\ events = <<>>
  /\ coord_idx = 0

NextStageFair ==
  \/ CoordStep
  \/ \E i \in 1..Len(workers) : WorkerStep(i) \/ WorkerAppendRows(i)

\* every thread that can take a step is scheduled in the end, and every
\* statement of a table write returns
SpecStageFair ==
  /\ InitStageFair
  /\ [][NextStageFair]_vars
  /\ WF_vars(CoordStep)
  /\ \A i \in 1..StageThreads : WF_vars(WorkerStep(i)) /\ WorkerRowsFair(i)

\* the worker's thread has returned: its connection is dropped
WorkerClosed(i) == workers[i].pc \in {"done", "failed", "panicked"}

\* C24: in a parallel run the staging files of distinct workers are distinct
\* files, a step that changes staging database i is a step of worker i alone,
\* taken while its connection is open, and changes no other staging database
\* and not the target; the target changes only in the merge, which starts
\* after every worker has returned Ok and been joined
C24_StagingOwnership ==
  /\ [](\A i, j \in 1..Len(workers) : i # j => shard_path(i - 1) # shard_path(j - 1))
  /\ [](pc = "par_merge" => \A i \in 1..Len(workers) : workers[i].pc = "done")
  /\ [][\A i \in 1..Len(shards) :
          (Len(shards') = Len(shards) /\ shards'[i] # shards[i]) =>
            /\ ~WorkerClosed(i)
            /\ workers'[i] # workers[i]
            /\ \A j \in 1..Len(shards) : j # i =>
                 shards'[j] = shards[j] /\ workers'[j] = workers[j]
            /\ tables' = tables]_vars
  /\ [][(workers # <<>> /\ tables' # tables) =>
          pc = "par_merge" /\ workers' = workers /\ shards' = shards]_vars

\* two workers have written their staging databases and the coordinator has
\* merged both into the target
C24_Witness ==
  /\ pc = "ok"
  /\ Len(shards) >= 2
  /\ \A i \in 1..Len(shards) : \E t \in DOMAIN shards[i] : shards[i][t] # <<>>
  /\ \A i \in 1..Len(shards) : DOMAIN shards[i] \subseteq DOMAIN tables

\* the stage of table j of worker i: 0 Planned, 1 Created, 2 Appending,
\* 3 Flushed, 4 Done
TableStage(i, j) ==
  LET worker == workers[i]
  IN IF j < worker.idx THEN 4
     ELSE IF j > worker.idx THEN 0
     ELSE CASE worker.pc = "created" -> 1
            [] worker.pc = "appended" -> 2
            [] worker.pc = "completed" -> 3
            [] worker.pc = "failed" ->
                 IF worker.err.kind = "CreateFailed" THEN 0
                 ELSE IF worker.err.kind = "FlushFailed" THEN 2 ELSE 1
            [] OTHER -> 0

\* what a worker sends about a table, and what the coordinator reports of it
WorkerEventKinds ==
  { "TableStarted", "TableCompleted", "DataWorkerTableStart", "DataWorkerTableEnd" }

\* the events of one kind about table j of worker i, sent or already reported
TableEvents(i, j, kinds) ==
  { k \in 1..Len(chan \o events) :
      LET m == (chan \o events)[k]
      IN /\ m.event \in kinds
         /\ "worker_id" \in DOMAIN m
         /\ m.worker_id = i - 1
         /\ m.index = j }

\* C25: each planned table is in exactly one worker's list; a table's stage
\* never goes back and advances one stage at a time; a worker that has failed
\* does nothing afterwards (no further table, no retry), and no TableCompleted
\* exists for the table it failed on; no table is started twice
C25_TableLifecycle ==
  /\ [](workers # <<>> =>
          \A p \in 1..Len(plans) :
            Cardinality({ ij \in (1..Len(worker_plans)) \X (1..Len(plans)) :
                            /\ ij[2] <= Len(worker_plans[ij[1]])
                            /\ worker_plans[ij[1]][ij[2]] = plans[p] }) = 1)
  /\ [][\A i \in 1..Len(workers) :
          Len(workers') = Len(workers) =>
            /\ \A j \in 1..Len(worker_plans[i]) :
                 \/ TableStage(i, j)' = TableStage(i, j)
                 \/ TableStage(i, j)' = TableStage(i, j) + 1
            /\ workers[i].pc = "failed" =>
                 /\ workers'[i] = workers[i]
                 /\ shards'[i] = shards[i]
                 /\ \A j \in 1..Len(worker_plans[i]) :
                      Cardinality(TableEvents(i, j, WorkerEventKinds))'
                        = Cardinality(TableEvents(i, j, WorkerEventKinds))]_vars
  /\ [](\A i \in 1..Len(workers) :
          /\ workers[i].pc = "failed" =>
               TableEvents(i, workers[i].idx,
                           {"TableCompleted", "DataWorkerTableEnd"}) = {}
          /\ \A j \in 1..Len(worker_plans[i]) :
               Cardinality(TableEvents(i, j, {"TableStarted", "DataWorkerTableStart"}))
                 <= 1)

\* a worker has finished its first table and failed in the flush of its
\* second one, after the rows were appended
C25_Witness ==
  \E i \in 1..Len(workers) :
    /\ workers[i].pc = "failed"
    /\ workers[i].err.kind = "FlushFailed"
    /\ workers[i].idx = 2
    /\ TableEvents(i, 1, {"TableCompleted", "DataWorkerTableEnd"}) # {}

\* the places in a plan of the keys whose period type has no BIN file
UnknownPeriodKeys(plan) ==
  { k \in 1..Len(plan.key_ids) :
      cat.key_index[plan.key_ids[k]].period_type_id \notin DOMAIN cat.period_data }

SingleRows == { a \in 1..Len(xml) :
                  \A b \in 1..Len(xml) : xml[b].membership_id = xml[a].membership_id => b = a }

\* C27 as stated: of two memberships of one collection, the one earlier in
\* the document has the smaller collection_idx
C27_Original ==
  load_pc \in {"counted", "loaded", "failed"} =>
    \A a, b \in SingleRows :
      (a < b /\ xml[a].collection_id = xml[b].collection_id) =>
        cat.membership[xml[a].membership_id].collection_idx
          < cat.membership[xml[b].membership_id].collection_idx

\* what the loader does: within a collection, collection_idx follows the
\* ascending order of membership_id, whatever the order of the document
C27_IdOrder ==
  load_pc \in {"counted", "loaded", "failed"} =>
    \A m1, m2 \in DOMAIN cat.membership :
      (m1 < m2 /\ cat.membership[m1].collection_id = cat.membership[m2].collection_id) =>
        cat.membership[m1].collection_idx < cat.membership[m2].collection_idx

\* the document lists membership 11 before membership 10 of the same
\* collection, and membership 10 has been given the smaller collection_idx
C27_Witness ==
  /\ load_pc = "counted"
  /\ \E a, b \in SingleRows :
       /\ a < b
       /\ xml[a].membership_id > xml[b].membership_id
       /\ xml[a].collection_id = xml[b].collection_id
       /\ cat.membership[xml[a].membership_id].collection_idx
            > cat.membership[xml[b].membership_id].collection_idx

\* the TableCompleted events the coordinator has received and reported
ReceivedCompleted ==
  Cardinality({ k \in 1..Len(events) : events[k].event = "DataWorkerTableEnd" })

\* C29: with every thread scheduled and every table write returning, the
\* receive loop of the coordinator always ends; it ends either with every
\* table counted, or with the channel empty and every worker returned, and
\* then the error carries the number of TableCompleted events received,
\* which is smaller than the number of tables
C29_ReceiveLoopEnds ==
  /\ (pc = "par_recv") ~> (pc # "par_recv")
  /\ [][(pc = "par_recv" /\ pc' # "par_recv") =>
          \/ /\ pc' = "par_join"
             /\ completed_tables = Len(plans)
             /\ ReceivedCompleted = Len(plans)
          \/ /\ pc' = "failed"
             /\ chan = <<>>
             /\ \A i \in 1..Len(workers) : WorkerClosed(i)
             /\ error' = Err("ChannelClosed", ReceivedCompleted, Len(plans))
             /\ ReceivedCompleted < Len(plans)]_vars

\* the receive loop has ended on the closed channel after one table was
\* completed and the worker of another table failed
C29_Witness ==
  /\ pc = "failed"
  /\ error.kind = "ChannelClosed"
  /\ error.key_id >= 1
  /\ error.arg = Len(plans)
  /\ \E i \in 1..Len(workers) : workers[i].pc = "failed"


(***************************************************************************)
(* The command line program (main.rs)                                      *)
(***************************************************************************)
\* Path::extension: what follows the last dot of the file name, if there is
\* a dot that is not its first character
extension(path) ==
  LET name == file_name(path)
      dots == { j \in 1..Len(name) : name[j] = "." }
      last == CHOOSE j \in dots : \A k \in dots : k <= j
  IN IF dots = {} \/ last = 1 THEN [some |-> FALSE, val |-> <<>>]
     ELSE [some |-> TRUE, val |-> SubSeq(name, last + 1, Len(name))]

\* Path::with_extension: the extension replaced, or added when there is none
with_extension(path, ext) ==
  SubSeq(path, 1, Len(path) - Len(file_name(path))) \o file_stem(path) \o <<".">> \o ext

\* Path::parent of a relative path
parent(path) ==
  IF file_name(path) = path THEN <<>>
  ELSE SubSeq(path, 1, Len(path) - Len(file_name(path)) - 1)

exists(fs, path) == path \in DOMAIN fs
is_file(fs, path) == exists(fs, path) /\ fs[path].kind = "file"
is_dir(fs, path) == exists(fs, path) /\ fs[path].kind = "dir"

ExtZip == << "z", "i", "p" >>
ExtXml == << "x", "m", "l" >>
ExtDuckdb == << "d", "u", "c", "k", "d", "b" >>

\* resolve_input_path: a .zip or .xml file, or the only .zip file of a folder
resolve_input_path(fs, input) ==
  IF is_file(fs, input)
  THEN LET ext == extension(input) IN
       IF ext.some /\ to_lowercase(ext.val) \in {ExtZip, ExtXml}
       THEN [ok |-> TRUE, path |-> input, error |-> "none"]
       ELSE [ok |-> FALSE, path |-> <<>>,
             error |-> "Input file must have .zip or .xml extension"]
  ELSE IF is_dir(fs, input)
  THEN LET zip_files == { f \in DOMAIN fs :
                            /\ f # input
                            /\ parent(f) = input
                            /\ extension(f).some
                            /\ to_lowercase(extension(f).val) = ExtZip }
       IN IF Cardinality(zip_files) = 1
          THEN [ok |-> TRUE, path |-> CHOOSE f \in zip_files : TRUE, error |-> "none"]
          ELSE IF zip_files = {}
          THEN [ok |-> FALSE, path |-> <<>>, error |-> "No .zip files found in directory"]
          ELSE [ok |-> FALSE, path |-> <<>>,
                error |-> "Multiple .zip files found in directory"]
  ELSE [ok |-> FALSE, path |-> <<>>, error |-> "Path is neither a file nor a directory"]

\* std::fs::remove_file: it fails on a folder
remove_file(fs, path) ==
  IF is_file(fs, path)
  THEN [ok |-> TRUE, fs |-> [f \in DOMAIN fs \ {path} |-> fs[f]]]
  ELSE [ok |-> FALSE, fs |-> fs]

\* a faulty variant: the output path is only computed
resolve_output_path_Keep(fs, input, output) ==
  LET given == IF output.some THEN output.val ELSE with_extension(input, ExtDuckdb)
      output_path == IF ~extension(given).some THEN with_extension(given, ExtDuckdb)
                     ELSE given
  IN [ok |-> TRUE, path |-> output_path, fs |-> fs]

\* resolve_output_path: the path given or the input with .duckdb; a path
\* without extension gets .duckdb; a file at this path is removed
resolve_output_path(fs, input, output) ==
  LET given == IF output.some THEN output.val ELSE with_extension(input, ExtDuckdb)
      output_path == IF ~extension(given).some THEN with_extension(given, ExtDuckdb)
                     ELSE given
  IN IF exists(fs, output_path)
     THEN LET r == remove_file(fs, output_path)
          IN [ok |-> r.ok, path |-> output_path, fs |-> r.fs]
     ELSE [ok |-> TRUE, path |-> output_path, fs |-> fs]

CliFail(c, stage, message) ==
  [c EXCEPT !.pc = "failed", !.failed_in = stage, !.error = message]

\* run: let input_path = resolve_input_path(&args.input)?
CliResolveInputPath ==
  /\ cli.pc = "args"
  /\ LET r == resolve_input_path(cli.fs, cli.input)
     IN cli' = IF r.ok THEN [cli EXCEPT !.pc = "input", !.input_path = r.path]
               ELSE CliFail(cli, "input", r.error)
  /\ UNCHANGED << loader_vars, data_write_threads, available, zip, duck, planner, xml,
                  pc, plans, seq_vars, tables, error, events, par_vars >>

\* run: let output_path = resolve_output_path(&input_path, args.output)?
CliResolveOutputPath ==
  /\ cli.pc = "input"
  /\ LET r == resolve_output_path(cli.fs, cli.input_path, cli.output)
     IN cli' = IF r.ok
               THEN [cli EXCEPT !.pc = "output", !.output_path = r.path, !.fs = r.fs]
               ELSE CliFail(cli, "output", "remove_file")
  /\ UNCHANGED << loader_vars, data_write_threads, available, zip, duck, planner, xml,
                  pc, plans, seq_vars, tables, error, events, par_vars >>

\* run: the dataset is read from the .zip or .xml file; the read may fail
CliLoad ==
  /\ cli.pc = "output"
  /\ \E ok \in BOOLEAN :
       cli' = IF ok THEN [cli EXCEPT !.pc = "loaded"] ELSE CliFail(cli, "load", "load")
  /\ UNCHANGED << loader_vars, data_write_threads, available, zip, duck, planner, xml,
                  pc, plans, seq_vars, tables, error, events, par_vars >>

\* run: if args.print_summary { dataset.print_summary(); return Ok(()) }
CliPrintSummary ==
  /\ cli.pc = "loaded"
  /\ cli.print_summary
  /\ cli' = [cli EXCEPT !.pc = "done", !.stdout = Append(@, "summary")]
  /\ UNCHANGED << loader_vars, data_write_threads, available, zip, duck, planner, xml,
                  pc, plans, seq_vars, tables, error, events, par_vars >>

\* run: dataset.to_duckdb(&output_path)...run()?; a failed run may have
\* created the file
CliToDuckdb ==
  /\ cli.pc = "loaded"
  /\ ~cli.print_summary
  /\ \E ok \in BOOLEAN, created \in BOOLEAN :
       LET written == (cli.output_path :> [kind |-> "file", data |-> "duckdb"]) @@ cli.fs
       IN cli' = IF ok
                 THEN [cli EXCEPT !.pc = "done", !.fs = written,
                                  !.stdout = Append(@, "DuckDB database created at:")]
                 ELSE [CliFail(cli, "to_duckdb", "to_duckdb") EXCEPT
                         !.fs = IF created THEN written ELSE cli.fs]
  /\ UNCHANGED << loader_vars, data_write_threads, available, zip, duck, planner, xml,
                  pc, plans, seq_vars, tables, error, events, par_vars >>

PathA == << "a" >>
PathD == << "d" >>
PathO == << "o" >>
OldFile == [kind |-> "file", data |-> "old"]

\* the input files: a.zip, a.XML, a.txt, the folder d with one or two archives
InputFiles ==
  { (PathA \o <<".">> \o ExtZip) :> OldFile,
    (PathA \o <<".", "X", "M", "L">>) :> OldFile,
    (PathA \o <<".", "t", "x", "t">>) :> OldFile,
    (PathD :> [kind |-> "dir", data |-> "none"])
      @@ ((PathD \o <<"/", "b", ".">> \o ExtZip) :> OldFile),
    (PathD :> [kind |-> "dir", data |-> "none"])
      @@ ((PathD \o <<"/", "b", ".">> \o ExtZip) :> OldFile)
      @@ ((PathD \o <<"/", "c", ".", "Z", "I", "P">>) :> OldFile) }

\* what may be at the output paths before the run
OutputFiles ==
  { PathA \o <<".">> \o ExtDuckdb, PathO \o <<".">> \o ExtDuckdb,
    PathO \o <<".", "d", "b">>, PathD \o <<"/", "b", ".">> \o ExtDuckdb }

CliArgs ==
  [ input : { PathA \o <<".">> \o ExtZip, PathA \o <<".", "X", "M", "L">>,
              PathA \o <<".", "t", "x", "t">>, PathD, PathO },
    output : { [some |-> FALSE, val |-> <<>>], [some |-> TRUE, val |-> PathO],
               [some |-> TRUE, val |-> PathO \o <<".", "d", "b">>],
               [some |-> TRUE, val |-> PathD] },
    print_summary : BOOLEAN ]

InitCli ==
  /\ \E args \in CliArgs, inputs \in InputFiles, present \in SUBSET OutputFiles :
       LET fs == [f \in present |-> OldFile] @@ inputs
       IN cli = [CliIdle EXCEPT !.pc = "args", !.input = args.input,
                                !.output = args.output,
                                !.print_summary = args.print_summary,
                                !.before = fs, !.fs = fs]
  /\ cat = BaseCat
  /\ load_pc = "unread"
  /\ mapping = <<>>
  /\ data_write_threads = SomeInt(1)
  /\ available = 1
  /\ zip = ZipIdle
  /\ duck = DuckIdle
  /\ planner = PlannerIdle
  /\ xml = <<>>
  /\ pc = "idle"
  /\ plans = <<>>
  /\ table_idx = 0
  /\ w = AppendStart
  /\ tables = <<>>
  /\ error = NoErr
  /\ events = <<>>
  /\ worker_plans = <<>>
  /\ workers = <<>>
  /\ shards = <<>>
  /\ chan = <<>>
  /\ completed_tables = 0
  /\ coord_idx = 0

NextCli ==
  \/ CliResolveInputPath
  \/ CliResolveOutputPath
  \/ CliLoad
  \/ CliPrintSummary
  \/ CliToDuckdb

\* one run of the command line program
SpecCli == InitCli /\ [][NextCli]_vars

\* C30 as stated: after a run with --print-summary, and after a run that
\* failed while loading the input, every file that existed before the run
\* still exists unchanged
C30_Original ==
  (cli.pc \in {"done", "failed"} /\ (cli.print_summary \/ cli.failed_in = "load")) =>
    \A f \in DOMAIN cli.before : exists(cli.fs, f) /\ cli.fs[f] = cli.before[f]

\* what the program does: a run that got past resolve_output_path has
\* removed the file that was at the output path, also with --print-summary;
\* only to_duckdb puts a file there again, and no other file is touched
C30_OutputRemoved ==
  /\ cli.pc \in {"output", "loaded"} \/ (cli.pc = "done" /\ cli.print_summary)
       \/ (cli.pc = "failed" /\ cli.failed_in = "load")
       => ~exists(cli.fs, cli.output_path)
  /\ \A f \in DOMAIN cli.before :
       f # cli.output_path => exists(cli.fs, f) /\ cli.fs[f] = cli.before[f]

\* a run with --print-summary has printed the summary, and the file that was
\* at the output path before the run is gone
C30_Witness ==
  /\ cli.pc = "done"
  /\ cli.print_summary
  /\ cli.stdout = << "summary" >>
  /\ exists(cli.before, cli.output_path)
  /\ ~exists(cli.fs, cli.output_path)

====
